---- MODULE Spec2Model ----
(***************************************************************************)
(* Model of the Medium list scraper (src/medium_scraper.py): the session   *)
(* orchestrator scrape_list, the scroll-extraction loop                    *)
(* _scroll_and_load_content, the checkpoint manager and the browser        *)
(* cleanup.                                                                *)
(*                                                                         *)
(* Strings are modelled as sequences of tokens: a data-href "/a" is        *)
(* <<"/", "a">>, the URL "https://medium.com/a" is                         *)
(* <<"https:", "//", "medium.com", "/", "a">>, the empty string is <<>>.   *)
(***************************************************************************)
EXTENDS Integers, Sequences, FiniteSets, Bags, TLC

(* ------------------------------------------------------------------ *)
(* Bounds of the model                                                 *)
(* ------------------------------------------------------------------ *)

\* Largest number of article nodes one snapshot of the page renders.
MaxNodes == 2

\* Scroll actions explored by the specification with faults and interrupts.
MaxScrolls == 4

\* Scroll actions explored by the specification of the stop conditions.
MaxStopScrolls == 10

\* Calls of scrape_list on one scraper instance.
MaxRuns == 2

\* The save_interval the scraper is constructed with (a constructor argument).
SaveInterval == 2

\* In the feed that never ends, the number of snapshots from one new record
\* to the next.
FeedPeriod == 50

(* ------------------------------------------------------------------ *)
(* Program constants                                                   *)
(* ------------------------------------------------------------------ *)

\* max_consecutive_empty, medium_scraper.py line 385
max_consecutive_empty == 5

\* max_scroll_attempts, medium_scraper.py line 392
max_scroll_attempts == 5000

\* the literal of "consecutive_no_scroll_progress >= 10", line 481
no_scroll_progress_limit == 10

\* the literals of max(200, existing_count // 15 + 100), line 388
min_all_known_limit == 200
articles_per_scroll == 15
all_known_margin == 100

Max(a, b) == IF a >= b THEN a ELSE b

\* An estimate that counts a scroll for an incomplete batch of 15 too.
RoundedUpScrollsNeeded(existing_count) ==
    Max(min_all_known_limit,
        ((existing_count + articles_per_scroll - 1) \div articles_per_scroll)
        + all_known_margin)

\* estimated_scrolls_needed, line 388
estimated_scrolls_needed(existing_count) ==
    Max(min_all_known_limit, (existing_count \div articles_per_scroll) + all_known_margin)

(* ------------------------------------------------------------------ *)
(* URLs                                                                *)
(* ------------------------------------------------------------------ *)

\* "https://medium.com", the base both URL computations use
Origin == <<"https:", "//", "medium.com">>

StartsWithSlash(h) == Len(h) > 0 /\ h[1] \in {"/", "//"}

\* The first tokens of the model's values that begin with the letters
\* "http": the two schemes, and path segments such as "httpx".
HttpTokens == {"http:", "https:", "http", "httpx"}

\* data_href.startswith('http'), lines 292 and 416
StartsWithHttp(h) == Len(h) > 0 /\ h[1] \in HttpTokens

\* path.split('/') of a path given as tokens: the segments between the
\* "/", the empty ones ("") included.
RECURSIVE Split(_)
Split(h) ==
    IF h = <<>> THEN <<"">>
    ELSE IF Head(h) = "/" THEN <<"">> \o Split(Tail(h))
    ELSE IF Len(h) = 1 THEN <<Head(h)>>
    ELSE <<Head(h)>> \o Split(Tail(Tail(h)))

\* The segments urljoin resolves for a path joined to a base with an
\* empty path: those of a path that begins with "/" as they are, those of
\* a relative path after the one empty segment of the base, its empty
\* segments other than the last filtered out.
Segments(h) ==
    LET parts == Split(h)
    IN  IF h # <<>> /\ Head(h) = "/" THEN parts
        ELSE <<"">> \o SelectSeq(SubSeq(parts, 1, Len(parts) - 1), LAMBDA t : t # "")
                    \o <<parts[Len(parts)]>>

\* The resolved_path of urljoin: "." is dropped, ".." drops the segment
\* before it (or nothing when there is none), and a last segment "." or
\* ".." leaves an empty last segment.
RECURSIVE RemoveDots(_, _)
RemoveDots(segs, acc) ==
    IF segs = <<>> THEN acc
    ELSE LET next == IF Head(segs) = "." THEN acc
                     ELSE IF Head(segs) = ".."
                          THEN (IF acc = <<>> THEN acc ELSE SubSeq(acc, 1, Len(acc) - 1))
                     ELSE Append(acc, Head(segs))
         IN  IF Tail(segs) = <<>> /\ Head(segs) \in {".", ".."}
             THEN Append(next, "")
             ELSE RemoveDots(Tail(segs), next)

RECURSIVE Slashed(_)
Slashed(segs) ==
    IF segs = <<>> THEN <<>> ELSE <<"/", Head(segs)>> \o Slashed(Tail(segs))

\* '/'.join(segs), in tokens
RECURSIVE Join(_)
Join(segs) ==
    IF segs = <<>> THEN <<>>
    ELSE (IF Head(segs) = "" THEN <<>> ELSE <<Head(segs)>>)
         \o (IF Tail(segs) = <<>> THEN <<>> ELSE <<"/">> \o Join(Tail(segs)))

\* The path urljoin gives the result for the path tokens of a reference:
\* the resolved segments joined, "/" when nothing is left, and with the
\* "/" urlunparse puts between the host and a path that lacks it.
JoinedPath(path) ==
    LET r == Join(RemoveDots(Segments(path), <<>>))
    IN  IF r = <<>> THEN <<"/">>
        ELSE IF Head(r) # "/" THEN <<"/">> \o r
        ELSE r

\* urllib.parse.urljoin("https://medium.com", h) for a reference h that has
\* no scheme, query or fragment: the base for the empty reference; a
\* reference "//host..." with a host takes the scheme of the base and is
\* otherwise returned as it is; a reference "//" without a host takes the
\* host of the base, and is the base when nothing follows the "//"; any
\* other is a path joined to the base.
urljoin(h) ==
    IF h = <<>> THEN Origin
    ELSE IF Head(h) = "//"
         THEN IF Len(h) > 1 /\ h[2] # "/" THEN <<"https:">> \o h
              ELSE IF Tail(h) = <<>> THEN Origin
              ELSE Origin \o JoinedPath(Tail(h))
    ELSE Origin \o JoinedPath(h)

\* normalize_url(url) with the default base_url, utils.py lines 83-112 (a
\* url without surrounding white space, so that strip() changes nothing)
normalize_url(url) ==
    IF url = <<>> THEN <<>>
    ELSE IF StartsWithSlash(url) THEN urljoin(url)
    ELSE IF url[1] = "//" THEN <<"https:">> \o url
    ELSE IF Len(url) > 1 /\ url[1] \in {"http:", "https:"} /\ url[2] = "//" THEN url
    ELSE urljoin(url)

\* The URL the cheap probe of the loop computes from a non-empty data-href.
ProbeUrl(data_href) ==
    IF StartsWithSlash(data_href) THEN Origin \o data_href
    ELSE IF StartsWithHttp(data_href) THEN data_href
    ELSE Origin \o <<"/">> \o data_href

\* The URL _extract_article_data stores for a node: "" when the node has no
\* [data-href] element, no data-href attribute or an empty one.
ExtractUrl(node) ==
    IF node.link # "attr" \/ node.href = <<>> THEN <<>>
    ELSE IF StartsWithSlash(node.href) THEN Origin \o node.href
    ELSE IF StartsWithHttp(node.href) THEN node.href
    ELSE urljoin(node.href)

(* ------------------------------------------------------------------ *)
(* Article nodes of the page and Article records                       *)
(* ------------------------------------------------------------------ *)

HrefA == <<"/", "a">>
HrefUpA == <<"..", "/", "a">>

\* Longest path, in segments, of the URLs handed to the URL normalization.
MaxSegments == 2

PathSegments == {"foo", "bar", "x"}

Hosts == {"medium.com", "cdn.example.com"}

\* "/foo", "/foo/bar", ...
Paths == {Slashed(segs) : segs \in UNION {[1..n -> PathSegments] : n \in 1..MaxSegments}}

\* "//cdn.example.com", "//cdn.example.com/x", ...
NetworkPaths == {<<"//", host>> \o path : host \in Hosts, path \in Paths \cup {<<>>}}

\* "foo/bar/..", "foo/.", "foo/", "//cdn.example.com/../x", "/foo/..",
\* "httpx/foo", "http", "//", "///a", "///..": references that end in a dot
\* segment or in "/", a protocol-relative value with a dot segment, relative
\* paths whose first letters are "http", and references that begin with
\* "//" and name no host.
DotPaths ==
    { <<"foo", "/", "bar", "/", "..">>, <<"foo", "/", ".">>, <<"foo", "/">>,
      <<"//", "cdn.example.com", "/", "..", "/", "x">>, <<"/", "foo", "/", "..">>,
      <<"httpx", "/", "foo">>, <<"http">>,
      <<"//">>, <<"//", "/", "a">>, <<"//", "/", "..">> }

\* The values of a data-href and the arguments of normalize_url: the empty
\* string, root-relative paths, protocol-relative values, absolute URLs and
\* relative paths ("foo/bar", "../a").
UrlTexts ==
    {<<>>, HrefUpA} \cup Paths \cup NetworkPaths \cup DotPaths
    \cup {<<scheme>> \o rest : scheme \in {"http:", "https:"}, rest \in NetworkPaths}
    \cup {Tail(path) : path \in Paths}

\* What the page driver answers for one <article> element: whether it holds
\* a [data-href] element ("none": no such element, "noattr": the element has
\* no data-href attribute, "attr": it has one, possibly empty), the
\* attribute's value, and whether a driver call on it raises: "probe" in the
\* loop's own query (lines 410-412), "extract" inside _extract_article_data.
NodesOver(hrefs) ==
    [link : {"attr"}, href : hrefs \cup {<<>>}, fails : {"no", "probe", "extract"}]
    \cup [link : {"none", "noattr"}, href : {<<>>}, fails : {"no", "probe", "extract"}]

AllNodes == NodesOver({HrefA, HrefUpA})

StopNodes == NodesOver({HrefA})

\* An Article record (lines 39-50), reduced to the field that identifies it
\* and to extracted_at, the time _extract_article_data built it (line 308).
Article(u, t) == [url |-> u, extracted_at |-> t]

\* datetime.now() of line 308, reduced to the order of the sightings of one
\* URL: 0 is the time of a record an earlier run wrote to the checkpoint, 1
\* the time of the extraction that puts the URL into the ledger, 2 the time
\* of any extraction made when the ledger holds the URL already.
Now(url, ledger) == IF url \in ledger THEN 2 ELSE 1

\* A record of an earlier run, as the checkpoint holds it.
Earlier(u) == Article(u, 0)

UrlsOf(list) == {list[i].url : i \in 1..Len(list)}

(* ------------------------------------------------------------------ *)
(* checkpoint.json                                                     *)
(* ------------------------------------------------------------------ *)

\* The fields of Article (lines 39-50) that the model keeps.
ArticleFields == {"url", "extracted_at"}

\* A dict that leaves extracted_at out.
DictWithoutTime(article) == << <<"url", article.url>> >>

\* asdict(article), line 607: the dict of the record's fields in the order
\* of their declaration, a sequence of <<key, value>> members. json.dumps
\* (line 614) writes a dict as a JSON object with the members in this order.
asdict(article) ==
    << <<"url", article.url>>, <<"extracted_at", article.extracted_at>> >>

\* [asdict(article) for article in articles], line 607
ArticleDicts(list) == [i \in 1..Len(list) |-> asdict(list[i])]

\* The keys of the dict json.loads (line 629) builds from a JSON object.
Keys(object) == {object[i][1] : i \in 1..Len(object)}

\* The value of a key in that dict: json.loads keeps the last member of a
\* key that the object repeats.
Value(object, key) ==
    LET last == CHOOSE i \in 1..Len(object) :
                   /\ object[i][1] = key
                   /\ \A j \in (i + 1)..Len(object) : object[j][1] # key
    IN  object[last][2]

\* Article(**article_data), line 631, returns: the keys are the fields of
\* Article, none missing and none unknown (it raises TypeError otherwise).
FieldsOk(object) == Keys(object) = ArticleFields

\* Article(**article_data), line 631
ArticleOf(object) == Article(Value(object, "url"), Value(object, "extracted_at"))

\* The file as _load_checkpoint sees it. kind: "missing" (no file), "json"
\* (parses as a JSON object), "garbage" (not JSON), "empty" (zero bytes) or
\* "truncated" (a prefix of a JSON text). For a JSON object: whether it has
\* the keys 'articles' and 'scraped_urls'; 'articles', the JSON array of
\* the objects of the records, each the sequence of its members; whether
\* Article(**...) accepts every one of them; and 'scraped_urls', a JSON
\* array of strings. The order of this array is the order in which Python
\* iterates a set, which nothing fixes, and only set() reads it (line 632):
\* the array is kept as the number of times each string occurs in it.
File(kind, has_articles, has_urls, objects, url_list) ==
    [kind |-> kind, has_articles |-> has_articles, has_urls |-> has_urls,
     records_ok |-> \A i \in 1..Len(objects) : FieldsOk(objects[i]),
     total_articles |-> Len(objects),
     scraped_urls |-> url_list, articles |-> objects]

NoUrls == [u \in {} |-> 1]

NoFile == File("missing", FALSE, FALSE, <<>>, NoUrls)
EmptyFile == File("empty", FALSE, FALSE, <<>>, NoUrls)
TruncatedFile == File("truncated", FALSE, FALSE, <<>>, NoUrls)
GarbageFile == File("garbage", FALSE, FALSE, <<>>, NoUrls)

\* list(self.scraped_urls), line 606: every URL of the ledger once.
ListOfSet(urls) == [u \in urls |-> 1]

\* set(checkpoint_data['scraped_urls']), line 632: the strings that occur
\* in the array.
SetOfList(url_list) == {u \in DOMAIN url_list : url_list[u] >= 1}

\* checkpoint_data of _save_checkpoint, lines 604-609
CheckpointData(list, urls) ==
    File("json", TRUE, TRUE, ArticleDicts(list), ListOfSet(urls))

\* The records 'articles' holds, for a file whose records Article accepts.
StoredRecords(file) == [i \in 1..Len(file.articles) |-> ArticleOf(file.articles[i])]

UrlA == Origin \o HrefA

\* The files a run can find: none, one an earlier run wrote, and malformed
\* ones (not JSON, a key missing, a record with wrong fields).
InitFiles ==
    { NoFile, GarbageFile,
      CheckpointData(<<Earlier(UrlA)>>, {UrlA}),
      File("json", TRUE, FALSE, ArticleDicts(<<Earlier(UrlA)>>), NoUrls),
      File("json", TRUE, TRUE, << << <<"url", UrlA>> >> >>, ListOfSet({UrlA})),
      File("json", FALSE, TRUE, <<>>, ListOfSet({UrlA})) }

StopInitFiles == { NoFile, CheckpointData(<<Earlier(UrlA)>>, {UrlA}) }

\* A load that assigns the ledger before it builds the list (lines 631 and
\* 632 swapped): a record with wrong fields then leaves the ledger loaded.
LedgerFirstLoad(file, ledger) ==
    IF file.kind = "missing" THEN [articles |-> <<>>, scraped_urls |-> ledger]
    ELSE IF file.kind # "json" THEN [articles |-> <<>>, scraped_urls |-> ledger]
    ELSE IF ~file.has_urls THEN [articles |-> <<>>, scraped_urls |-> ledger]
    ELSE IF ~file.has_articles
         THEN [articles |-> <<>>, scraped_urls |-> SetOfList(file.scraped_urls)]
    ELSE IF ~file.records_ok
         THEN [articles |-> <<>>, scraped_urls |-> SetOfList(file.scraped_urls)]
    ELSE [articles |-> StoredRecords(file), scraped_urls |-> SetOfList(file.scraped_urls)]

\* _load_checkpoint, lines 618-639: the list it returns and the ledger it
\* leaves. The list is built first (line 631), the ledger assigned last
\* (line 632); any exception on the way returns [] (lines 637-639).
_load_checkpoint(file, ledger) ==
    IF file.kind = "missing" THEN [articles |-> <<>>, scraped_urls |-> ledger]
    ELSE IF file.kind # "json" THEN [articles |-> <<>>, scraped_urls |-> ledger]
    ELSE IF ~file.has_articles THEN [articles |-> <<>>, scraped_urls |-> ledger]
    ELSE IF ~file.records_ok THEN [articles |-> <<>>, scraped_urls |-> ledger]
    ELSE IF ~file.has_urls THEN [articles |-> <<>>, scraped_urls |-> ledger]
    ELSE [articles |-> StoredRecords(file), scraped_urls |-> SetOfList(file.scraped_urls)]

\* The load succeeds: the file exists, parses and has both keys and good records.
Loadable(file) ==
    file.kind = "json" /\ file.has_articles /\ file.records_ok /\ file.has_urls

(* ------------------------------------------------------------------ *)
(* _parse_claps (lines 340-371)                                        *)
(* ------------------------------------------------------------------ *)

\* Longest text, in lines, handed to _parse_claps.
MaxLines == 4

\* the literal of "int(match) >= 10", line 364
min_claps == 10

\* A text is the sequence of its lines (split at the line breaks), a line
\* the sequence of its tokens after strip(): a run of decimal digits (what
\* \d matches and int() reads) with its value, a run of characters that are
\* digits for str.isdigit() and no decimal digits (a superscript two, a
\* circled one), or a run of other characters. The empty line is <<>>.
Num(n) == [digits |-> TRUE, isdigit |-> TRUE, value |-> n]
Superscript == [digits |-> FALSE, isdigit |-> TRUE, value |-> 0]
Word == [digits |-> FALSE, isdigit |-> FALSE, value |-> 0]

\* "", "2", "146", "3d ago", "Jun 24", "no numbers here", "42 99 5",
\* a superscript two, "24" followed by a superscript two
ClapsLines ==
    { <<>>, <<Num(2)>>, <<Num(146)>>, <<Num(3), Word>>, <<Word, Num(24)>>, <<Word>>,
      <<Num(42), Word, Num(99), Word, Num(5)>>,
      <<Superscript>>, <<Num(24), Superscript>> }

ClapsTexts == UNION {[1..n -> ClapsLines] : n \in 0..MaxLines}

\* Line 348: the lines that are not empty after strip().
NonEmptyLines(text) == SelectSeq(text, LAMBDA line : line # <<>>)

\* str.isdigit(), line 354: the line is not empty and each of its
\* characters is a digit for isdigit().
IsDigit(line) == line # <<>> /\ \A i \in 1..Len(line) : line[i].isdigit

\* int(line) returns: the line is one run of decimal digits. On any other
\* line that passes isdigit() it raises ValueError.
IsInt(line) == Len(line) = 1 /\ line[1].digits

\* re.findall(r'\d+', text) with the test of line 364: the values of the
\* runs of digits of the whole text that are at least 10.
Numbers(text) ==
    UNION {{text[i][j].value :
               j \in {k \in 1..Len(text[i]) :
                         text[i][k].digits /\ text[i][k].value >= min_claps}} :
           i \in 1..Len(text)}

MaxOf(numbers) == CHOOSE m \in numbers : \A n \in numbers : n <= m

\* Lines 364-368: the largest of these numbers, 0 when there is none.
Fallback(text) == IF Numbers(text) = {} THEN 0 ELSE MaxOf(Numbers(text))

\* The value of int(line) at lines 355 and 361, or the 0 that the handler
\* of lines 370-371 returns when int() raises ValueError.
IntOrZero(line) == IF IsInt(line) THEN line[1].value ELSE 0

\* _parse_claps, lines 340-371
_parse_claps(text) ==
    LET lines == NonEmptyLines(text)
    IN  IF lines = <<>> THEN 0
        ELSE IF Len(lines) >= 3 /\ IsDigit(lines[2]) THEN IntOrZero(lines[2])
        ELSE IF Len(lines) = 3 /\ IsDigit(lines[2]) THEN IntOrZero(lines[2])
        ELSE Fallback(text)

(* ------------------------------------------------------------------ *)
(* parse_number (utils.py lines 18-53, medium_scraper.py lines 318-338)*)
(* ------------------------------------------------------------------ *)

\* Longest text, in characters, handed to parse_number.
MaxChars == 4

\* A text is the sequence of its characters. The characters of the model:
\* digits, the decimal point, the suffixes in both cases, and a letter that
\* is none of them.
DigitChars == <<"0", "1", "2", "3", "4", "5", "6", "7", "8", "9">>

IsDigitChar(c) == \E i \in 1..10 : DigitChars[i] = c

DigitValue(c) == (CHOOSE i \in 1..10 : DigitChars[i] = c) - 1

NumberChars == {"1", "2", "4", "5", ".", "K", "M", "k", "a"}

NumberTexts == UNION {[1..n -> NumberChars] : n \in 0..MaxChars}

\* str.upper() on one character
Upper(c) == IF c = "k" THEN "K" ELSE IF c = "m" THEN "M" ELSE IF c = "a" THEN "A" ELSE c

\* re.sub(r'[^\d\.KMkm]', '', text.upper()), lines 40 and 325
CleanText(text) ==
    SelectSeq([i \in 1..Len(text) |-> Upper(text[i])],
              LAMBDA c : IsDigitChar(c) \/ c \in {".", "K", "M", "k", "m"})

\* str.replace(suffix, '')
Without(text, suffix) == SelectSeq(text, LAMBDA c : c # suffix)

Contains(text, c) == \E i \in 1..Len(text) : text[i] = c

\* float(s) does not raise ValueError: s is made of digits around at most
\* one decimal point, with a digit at least.
IsFloatLiteral(s) ==
    /\ \E i \in 1..Len(s) : IsDigitChar(s[i])
    /\ \A i \in 1..Len(s) : IsDigitChar(s[i]) \/ s[i] = "."
    /\ Cardinality({i \in 1..Len(s) : s[i] = "."}) <= 1

\* Python integers are unbounded and its floats are IEEE 754 binary64: a
\* natural number is kept as the sequence of its bits, lowest first, without
\* leading zero bits (0 is the empty sequence).
RECURSIVE BitsOf(_)
BitsOf(n) == IF n = 0 THEN <<>> ELSE <<n % 2>> \o BitsOf(n \div 2)

Normalize(b) ==
    IF \A i \in 1..Len(b) : b[i] = 0 THEN <<>>
    ELSE SubSeq(b, 1, CHOOSE i \in 1..Len(b) :
                         b[i] = 1 /\ \A j \in (i + 1)..Len(b) : b[j] = 0)

\* Arithmetic goes limb by limb, a limb being 10 bits (a digit to the base
\* 1024), lowest limb first.
LimbBits == 10
LimbBase == 2 ^ LimbBits

BitAt(b, i) == IF i \in 1..Len(b) THEN b[i] ELSE 0

RECURSIVE LimbAt(_, _, _)
LimbAt(b, first, count) ==
    IF count = 0 THEN 0
    ELSE BitAt(b, first) + 2 * LimbAt(b, first + 1, count - 1)

Limbs(b) ==
    [j \in 1..((Len(b) + LimbBits - 1) \div LimbBits) |->
        LimbAt(b, LimbBits * (j - 1) + 1, LimbBits)]

Bits(limbs) ==
    Normalize([i \in 1..(LimbBits * Len(limbs)) |->
                  (limbs[((i - 1) \div LimbBits) + 1] \div (2 ^ ((i - 1) % LimbBits))) % 2])

RECURSIVE LimbsOf(_)
LimbsOf(n) == IF n = 0 THEN <<>> ELSE <<n % LimbBase>> \o LimbsOf(n \div LimbBase)

RECURSIVE TimesPlusLimbs(_, _, _)
TimesPlusLimbs(limbs, c, carry) ==
    IF limbs = <<>> THEN LimbsOf(carry)
    ELSE LET t == limbs[1] * c + carry
         IN  <<t % LimbBase>> \o TimesPlusLimbs(Tail(limbs), c, t \div LimbBase)

\* b * c + carry, for c and carry up to a million
TimesPlus(b, c, carry) == Bits(TimesPlusLimbs(Limbs(b), c, carry))

RECURSIVE DivModLimbs(_, _)
DivModLimbs(limbs, d) ==
    IF limbs = <<>> THEN [q |-> <<>>, r |-> 0]
    ELSE LET hi == DivModLimbs(Tail(limbs), d)
             t == hi.r * LimbBase + limbs[1]
         IN  [q |-> <<t \div d>> \o hi.q, r |-> t % d]

\* quotient and remainder of b by a small d (long division, highest limb first)
DivMod(b, d) ==
    LET limbs == DivModLimbs(Limbs(b), d)
    IN  [q |-> Bits(limbs.q), r |-> limbs.r]

ShiftLeft(b, s) == IF b = <<>> THEN b ELSE [i \in 1..s |-> 0] \o b

\* The decimal digits of a natural number, highest first (str(n)).
RECURSIVE DecimalDigits(_)
DecimalDigits(b) ==
    IF b = <<>> THEN <<>>
    ELSE LET d == DivMod(b, 10)
         IN  DecimalDigits(Normalize(d.q)) \o <<d.r>>

Decimal(b) == IF b = <<>> THEN <<0>> ELSE DecimalDigits(b)

\* The digits of a float literal as one natural number, and the number of
\* digits after its decimal point: the literal is digits / 10^places.
RECURSIVE DigitsOf(_)
DigitsOf(s) ==
    IF s = <<>> THEN <<>>
    ELSE IF s[Len(s)] = "." THEN DigitsOf(SubSeq(s, 1, Len(s) - 1))
    ELSE TimesPlus(DigitsOf(SubSeq(s, 1, Len(s) - 1)), 10, DigitValue(s[Len(s)]))

Places(s) ==
    IF Contains(s, ".") THEN Len(s) - (CHOOSE i \in 1..Len(s) : s[i] = ".") ELSE 0

\* b divided by 10^places: the quotient and whether anything was left over.
RECURSIVE DivPow10(_, _, _)
DivPow10(b, places, inexact) ==
    IF places = 0 THEN [q |-> Normalize(b), inexact |-> inexact]
    ELSE LET d == DivMod(b, 10)
         IN  DivPow10(d.q, places - 1, inexact \/ d.r # 0)

\* The bits of the significand of a binary64
Precision == 53

\* A positive float is significand * 2^exponent. Rounding to nearest, ties
\* to even, of the number b * 2^exponent (plus a fraction of its lowest bit
\* when `inexact') to a significand of 53 bits.
Round(b, exponent, inexact) ==
    IF Len(b) <= Precision THEN [significand |-> b, exponent |-> exponent]
    ELSE LET drop == Len(b) - Precision
             kept == SubSeq(b, drop + 1, Len(b))
             half == b[drop] = 1
             rest == inexact \/ \E i \in 1..(drop - 1) : b[i] = 1
             up == half /\ (rest \/ kept[1] = 1)
         IN  [significand |-> IF up THEN TimesPlus(kept, 1, 1) ELSE kept,
              exponent |-> exponent + drop]

\* float(s) for a float literal s (correctly rounded; the texts of the model
\* are far from the overflow and underflow of a binary64)
Float(s) ==
    LET shift == Precision + 1 + 4 * Places(s)
        d == DivPow10(ShiftLeft(Normalize(DigitsOf(s)), shift), Places(s), FALSE)
    IN  Round(d.q, 0 - shift, d.inexact)

\* x * factor for a float x and a factor that is a small integer
FloatTimes(x, factor) == Round(TimesPlus(x.significand, factor, 0), x.exponent, FALSE)

\* int(x) for a float x that is not negative: the fraction is cut off
IntOfFloat(x) ==
    IF x.exponent >= 0 THEN ShiftLeft(x.significand, x.exponent)
    ELSE IF 0 - x.exponent >= Len(x.significand) THEN <<>>
    ELSE SubSeq(x.significand, 1 - x.exponent, Len(x.significand))

\* the literals 1000 and 1000000 of lines 47 and 49
thousand == 1000
million == 1000000

\* The try block of lines 45-53: int(float(numeric part) * factor), 0 when
\* float raises ValueError
Scaled(numeric, factor) ==
    IF IsFloatLiteral(numeric)
    THEN Decimal(IntOfFloat(FloatTimes(Float(numeric), factor)))
    ELSE <<0>>

\* parse_number, utils.py lines 18-53, and _parse_number, medium_scraper.py
\* lines 318-338: the decimal digits of the integer returned
parse_number(text) ==
    LET clean_text == CleanText(text)
    IN  IF text = <<>> THEN <<0>>
        ELSE IF clean_text = <<>> THEN <<0>>
        ELSE IF Contains(clean_text, "K") THEN Scaled(Without(clean_text, "K"), thousand)
        ELSE IF Contains(clean_text, "M") THEN Scaled(Without(clean_text, "M"), million)
        ELSE Scaled(clean_text, 1)

(* ------------------------------------------------------------------ *)
(* State                                                               *)
(* ------------------------------------------------------------------ *)

VARIABLES
    pc,                 \* where the current call of scrape_list stands
    run,                \* calls of scrape_list made on this scraper so far
    outcome,            \* how the call ended: "none", "returned", "raised", "cancelled"
    raised_at,          \* the pc at which the exception or cancellation arose
    articles,           \* scrape_list's local list (line 649)
    initial_article_count,
    scraped_urls,       \* self.scraped_urls, the ledger (line 83)
    page, context, browser,     \* self.page, self.context, self.browser
    checkpoint_file,    \* output/checkpoint.json
    progress_file,      \* the latest progress snapshot written, <<>> when none
    articles_found,     \* the loop's running list (line 379)
    consecutive_no_new_content,
    consecutive_all_known_content,
    consecutive_no_scroll_progress,
    scroll_attempts,
    last_article_count,
    max_consecutive_all_known,
    current_count,      \* len(current_articles) of the iteration (line 397)
    nodes_left,         \* nodes of the snapshot the for loop has not reached
    initial_count,
    articles_extracted,
    articles_already_known,
    articles_failed,
    new_articles_count,
    last_node,          \* the node the for loop handled last and what it did
    stop_reason,        \* which break ended the loop, "none" for none
    iterations,         \* iterations of the while loop begun so far (line 394)
    last_scroll,        \* the scroll the last iteration performed
    claps_text,         \* the text _parse_claps is called with
    claps,              \* what _parse_claps returned for it
    number_text,        \* the text parse_number is called with
    number,             \* what parse_number returned for it, in decimal digits
    url_text,           \* the value the URL normalization is applied to
    normalized_url,     \* what normalize_url returned for it
    extracted_url,      \* the url _extract_article_data stored for it
    probed_url          \* the url the loop's cheap probe computed for it

scrapeVars == <<articles, initial_article_count>>
browserVars == <<page, context, browser>>
diskVars == <<checkpoint_file, progress_file>>
counterVars == <<consecutive_no_new_content, consecutive_all_known_content,
                 consecutive_no_scroll_progress, last_article_count>>
loopVars == <<scroll_attempts, max_consecutive_all_known, stop_reason, last_scroll,
              iterations>>
iterVars == <<current_count, nodes_left, initial_count, articles_extracted,
              articles_already_known, articles_failed, new_articles_count, last_node>>
endVars == <<outcome, raised_at>>
clapsVars == <<claps_text, claps>>
numberVars == <<number_text, number>>
urlVars == <<url_text, normalized_url, extracted_url, probed_url>>
parseVars == <<clapsVars, numberVars, urlVars>>

vars == <<pc, run, endVars, scrapeVars, scraped_urls, browserVars, diskVars,
          articles_found, counterVars, loopVars, iterVars, parseVars>>

NoNode == [node |-> [link |-> "none", href |-> <<>>, fails |-> "no"], verdict |-> "none"]

\* The state after MediumScraper.__init__ (lines 82-94), before any call,
\* with the checkpoint file the output directory holds.
InitScraper(files) ==
    /\ pc = "idle"
    /\ run = 0
    /\ outcome = "none"
    /\ raised_at = "none"
    /\ articles = <<>>
    /\ initial_article_count = 0
    /\ scraped_urls = {}
    /\ page = "none" /\ context = "none" /\ browser = "none"
    /\ checkpoint_file \in files
    /\ progress_file = <<>>
    /\ articles_found = <<>>
    /\ consecutive_no_new_content = 0
    /\ consecutive_all_known_content = 0
    /\ consecutive_no_scroll_progress = 0
    /\ scroll_attempts = 0
    /\ last_article_count = 0
    /\ max_consecutive_all_known = 0
    /\ current_count = 0
    /\ nodes_left = 0
    /\ initial_count = 0
    /\ articles_extracted = 0
    /\ articles_already_known = 0
    /\ articles_failed = 0
    /\ new_articles_count = 0
    /\ last_node = NoNode
    /\ stop_reason = "none"
    /\ last_scroll = "none"
    /\ iterations = 0

\* No text handed to _parse_claps.
NoClaps == claps_text = <<>> /\ claps = 0

\* No text handed to parse_number.
NoNumber == number_text = <<>> /\ number = <<0>>

\* No value handed to the URL normalization.
NoUrl ==
    url_text = <<>> /\ normalized_url = <<>> /\ extracted_url = <<>> /\ probed_url = <<>>

\* The scraper before any call, none of the parsers at work.
InitWith(files) ==
    /\ InitScraper(files)
    /\ NoClaps
    /\ NoNumber
    /\ NoUrl

Init == InitWith(InitFiles)

\* The locals of _scroll_and_load_content and of one iteration, as they are
\* before the loop is entered.
ResetLoop ==
    /\ articles_found' = <<>>
    /\ consecutive_no_new_content' = 0
    /\ consecutive_all_known_content' = 0
    /\ consecutive_no_scroll_progress' = 0
    /\ scroll_attempts' = 0
    /\ last_article_count' = 0
    /\ max_consecutive_all_known' = 0
    /\ current_count' = 0
    /\ nodes_left' = 0
    /\ initial_count' = 0
    /\ articles_extracted' = 0
    /\ articles_already_known' = 0
    /\ articles_failed' = 0
    /\ new_articles_count' = 0
    /\ last_node' = NoNode
    /\ stop_reason' = "none"
    /\ last_scroll' = "none"
    /\ iterations' = 0

(* ------------------------------------------------------------------ *)
(* scrape_list up to the loop (lines 641-667)                          *)
(* ------------------------------------------------------------------ *)

\* scrape_list(list_url, resume), lines 641-658, up to its first await:
\* articles = [] (line 648); with resume set and a checkpoint.json in the
\* output directory (line 622) the call suspends in _load_checkpoint, which
\* has assigned nothing yet; otherwise it goes on to the try block with the
\* empty list (lines 623-624 and 658).
ScrapeList(resume) ==
    /\ pc \in {"idle", "done"}
    /\ run' = run + 1
    /\ articles' = <<>>
    /\ initial_article_count' = 0
    /\ outcome' = "none"
    /\ raised_at' = "none"
    /\ ResetLoop
    /\ pc' = IF resume /\ checkpoint_file.kind # "missing" THEN "load_checkpoint"
             ELSE "init_browser"
    /\ UNCHANGED <<parseVars, browserVars, scraped_urls, checkpoint_file, progress_file>>

\* Lines 626-658: the file is read, _load_checkpoint assigns the ledger and
\* returns the list, scrape_list takes its length and enters the try block.
LoadCheckpoint ==
    /\ pc = "load_checkpoint"
    /\ LET loaded == _load_checkpoint(checkpoint_file, scraped_urls)
       IN  /\ articles' = loaded.articles
           /\ scraped_urls' = loaded.scraped_urls
           /\ initial_article_count' = Len(loaded.articles)
    /\ pc' = "init_browser"
    /\ UNCHANGED <<parseVars, run, endVars, browserVars, diskVars,
                   articles_found, counterVars, loopVars, iterVars>>

\* The open or the read of the file raises (lines 627-628): the handler of
\* lines 637-639 logs it and returns no record; the ledger is not assigned.
LoadCheckpointFails ==
    /\ pc = "load_checkpoint"
    /\ articles' = <<>>
    /\ initial_article_count' = 0
    /\ pc' = "init_browser"
    /\ UNCHANGED <<parseVars, run, endVars, scraped_urls, browserVars, diskVars,
                   articles_found, counterVars, loopVars, iterVars>>

\* The task is cancelled while _load_checkpoint awaits the file (lines
\* 627-628): the call is outside the try block of scrape_list (line 660), so
\* nothing is assigned and _cleanup does not run.
CancelLoad ==
    /\ pc = "load_checkpoint"
    /\ outcome' = "cancelled"
    /\ raised_at' = "load_checkpoint"
    /\ pc' = "done"
    /\ UNCHANGED <<parseVars, run, scrapeVars, scraped_urls, browserVars, diskVars,
                   articles_found, counterVars, loopVars, iterVars>>

\* main(), line 792: the one call the program makes, on a fresh scraper.
Start == run = 0 /\ ScrapeList(TRUE)

\* A caller of the class that passes resume=False, or calls scrape_list
\* again on the same scraper after a call has returned.
StartOther ==
    \E resume \in BOOLEAN :
        /\ run < MaxRuns
        /\ IF run = 0 THEN ~resume ELSE outcome = "returned"
        /\ ScrapeList(resume)

\* An exception propagates out of the try block: the except clause logs and
\* re-raises it (lines 697-699), the finally clause then runs _cleanup.
Raise(at) ==
    /\ outcome' = "raised"
    /\ raised_at' = at
    /\ pc' = "cleanup"

\* Lines 159-168: Playwright is started and the browser launched; the
\* browser is assigned when the launch returns.
LaunchBrowser ==
    /\ pc = "init_browser"
    /\ browser' = "open"
    /\ pc' = "new_context"
    /\ UNCHANGED <<parseVars, run, endVars, scrapeVars, scraped_urls, context, page, diskVars,
                   articles_found, counterVars, loopVars, iterVars>>

\* Lines 171-188: the context is assigned when new_context returns.
NewContext ==
    /\ pc = "new_context"
    /\ context' = "open"
    /\ pc' = "new_page"
    /\ UNCHANGED <<parseVars, run, endVars, scrapeVars, scraped_urls, browser, page, diskVars,
                   articles_found, counterVars, loopVars, iterVars>>

\* Lines 191-196: the page is assigned when new_page returns, and
\* _init_browser returns.
NewPage ==
    /\ pc = "new_page"
    /\ page' = "open"
    /\ pc' = "navigate"
    /\ UNCHANGED <<parseVars, run, endVars, scrapeVars, scraped_urls, browser, context, diskVars,
                   articles_found, counterVars, loopVars, iterVars>>

\* _init_browser, lines 154-196: its three awaits, one after the other.
InitBrowser == LaunchBrowser \/ NewContext \/ NewPage

\* _init_browser raising: the launch fails (nothing assigned), new_context
\* fails (the browser is assigned) or new_page fails (browser and context are).
InitBrowserFails ==
    /\ pc \in {"init_browser", "new_context", "new_page"}
    /\ Raise("init_browser")
    /\ UNCHANGED <<parseVars, run, scrapeVars, scraped_urls, browserVars, diskVars,
                   articles_found, counterVars, loopVars, iterVars>>

\* _navigate_to_list returns True (lines 198-222); _scroll_and_load_content
\* starts and sets its locals (lines 379-392).
Navigate ==
    /\ pc = "navigate"
    /\ articles_found' = articles
    /\ max_consecutive_all_known' = estimated_scrolls_needed(Len(articles))
    /\ pc' = "loop_top"
    /\ UNCHANGED <<parseVars, run, endVars, scrapeVars, scraped_urls, browserVars, diskVars,
                   counterVars, scroll_attempts, stop_reason, last_scroll, iterations,
                   iterVars>>

\* _navigate_to_list returns False (a status other than 200, a timeout, any
\* exception: lines 211-213 and 224-226): scrape_list returns articles (line 667).
NavigateFails ==
    /\ pc = "navigate"
    /\ outcome' = "returned"
    /\ pc' = "cleanup"
    /\ UNCHANGED <<parseVars, run, raised_at, scrapeVars, scraped_urls, browserVars, diskVars,
                   articles_found, counterVars, loopVars, iterVars>>

(* ------------------------------------------------------------------ *)
(* _scroll_and_load_content (lines 373-510)                            *)
(* ------------------------------------------------------------------ *)

\* A while condition without the scroll-attempt ceiling.
UncappedWhileCondition ==
    /\ consecutive_no_new_content < max_consecutive_empty
    /\ consecutive_all_known_content < max_consecutive_all_known

\* The while condition, line 394
WhileCondition ==
    /\ consecutive_no_new_content < max_consecutive_empty
    /\ consecutive_all_known_content < max_consecutive_all_known
    /\ scroll_attempts < max_scroll_attempts

\* Lines 394-405: the while test, then the snapshot of the rendered nodes
\* (query_selector_all), whose length is one of `counts', and the
\* per-iteration tallies.
LoopTop(counts) ==
    /\ pc = "loop_top"
    /\ IF WhileCondition
       THEN /\ \E n \in counts : current_count' = n /\ nodes_left' = n
            /\ initial_count' = Len(articles_found)
            /\ articles_extracted' = 0
            /\ articles_already_known' = 0
            /\ articles_failed' = 0
            /\ last_node' = NoNode
            /\ iterations' = iterations + 1
            /\ pc' = "nodes"
            /\ UNCHANGED new_articles_count
       ELSE /\ pc' = "merge"
            /\ UNCHANGED <<iterVars, iterations>>
    /\ UNCHANGED <<parseVars, run, endVars, scrapeVars, scraped_urls, browserVars, diskVars,
                   articles_found, counterVars, scroll_attempts, max_consecutive_all_known,
                   stop_reason, last_scroll>>

\* query_selector_all raises (the page is gone): nothing in the loop catches it.
SnapshotFails ==
    /\ pc = "loop_top"
    /\ WhileCondition
    /\ Raise("loop_top")
    /\ UNCHANGED <<parseVars, run, scrapeVars, scraped_urls, browserVars, diskVars,
                   articles_found, counterVars, loopVars, iterVars>>

\* Lines 410-424: the cheap probe finds a URL and the ledger holds it.
ProbeKnown(node, ledger) ==
    /\ node.link = "attr"
    /\ node.href # <<>>
    /\ ProbeUrl(node.href) \in ledger

\* An append without the test of line 428.
AlwaysNewArticle(url, found) == TRUE

\* Line 428: the extracted record is appended only if its URL is not yet in
\* the running list.
IsNewArticle(url, found) == url \notin UrlsOf(found)

\* What the body of the for loop (lines 407-437) does with one node:
\* "raised" (the probe raised, line 435), "known" (skipped, line 424),
\* "failed" (_extract_article_data returned None), "new" (appended) or
\* "duplicate" (extracted, but its URL is already in the running list).
Verdict(node, ledger, found) ==
    IF node.fails = "probe" THEN "raised"
    ELSE IF ProbeKnown(node, ledger) THEN "known"
    ELSE IF node.fails = "extract" THEN "failed"
    ELSE IF IsNewArticle(ExtractUrl(node), found) THEN "new"
    ELSE "duplicate"

\* _extract_article_data got as far as the node's URL (line 295).
UrlResolved(verdict) == verdict \in {"new", "duplicate", "failed"}

\* _extract_article_data ran to its end for the node (line 311 included).
Extracted(verdict) == verdict \in {"new", "duplicate"}

\* A loop in which the record of a URL seen again replaces the one the list
\* holds (last seen wins).
ReplaceSeen(found, node, ledger) ==
    LET v == Verdict(node, ledger, found)
        record == Article(ExtractUrl(node), Now(ExtractUrl(node), ledger))
    IN  IF v = "new" THEN Append(found, record)
        ELSE IF v = "duplicate"
             THEN [i \in 1..Len(found) |->
                      IF found[i].url = record.url THEN record ELSE found[i]]
        ELSE found

\* Lines 427-429: the running list after the node: the record
\* _extract_article_data built is appended when its URL is new to the list.
AppendNew(found, node, ledger) ==
    IF Verdict(node, ledger, found) = "new"
    THEN Append(found, Article(ExtractUrl(node), Now(ExtractUrl(node), ledger)))
    ELSE found

\* A for loop without the handlers of lines 314 and 435: the exception of a
\* node leaves the loop.
UnguardedProcessNode(nodes) ==
    /\ pc = "nodes"
    /\ nodes_left > 0
    /\ \E node \in nodes :
          /\ node.fails # "no"
          /\ last_node' = [node |-> node, verdict |-> "raised"]
    /\ Raise("nodes")
    /\ UNCHANGED <<parseVars, run, scrapeVars, scraped_urls, browserVars, diskVars, articles_found,
                   counterVars, loopVars, current_count, nodes_left, initial_count,
                   articles_extracted, articles_already_known, articles_failed,
                   new_articles_count>>

\* A failure tally that counts only the nodes whose extraction returned None.
ExtractionFailures(verdict) == IF verdict = "failed" THEN 1 ELSE 0

\* Lines 432-436: what the node adds to articles_failed, through the else
\* branch of line 432 or the handler of line 435.
FailedTally(verdict) == IF verdict \in {"raised", "failed", "duplicate"} THEN 1 ELSE 0

\* One pass of the for loop body, lines 407-437, on a node of the given set.
ProcessNode(nodes) ==
    /\ pc = "nodes"
    /\ nodes_left > 0
    /\ \E node \in nodes :
          LET v == Verdict(node, scraped_urls, articles_found)
          IN  /\ last_node' = [node |-> node, verdict |-> v]
              /\ scraped_urls' = IF Extracted(v) THEN scraped_urls \cup {ExtractUrl(node)}
                                 ELSE scraped_urls
              /\ articles_found' = AppendNew(articles_found, node, scraped_urls)
              /\ articles_extracted' = articles_extracted + (IF v = "new" THEN 1 ELSE 0)
              /\ articles_already_known' = articles_already_known + (IF v = "known" THEN 1 ELSE 0)
              /\ articles_failed' = articles_failed + FailedTally(v)
    /\ nodes_left' = nodes_left - 1
    /\ UNCHANGED <<parseVars, pc, run, endVars, scrapeVars, browserVars, diskVars, counterVars,
                   loopVars, current_count, initial_count, new_articles_count>>

\* An empty counter that an iteration of known nodes leaves as it is.
UnresetNoNewContent(new_count, known, c) ==
    IF new_count = 0 /\ known = 0 THEN c + 1
    ELSE IF new_count = 0 THEN c
    ELSE 0

\* An empty counter that counts the nodes that failed, not the iterations.
FailedNodesNoNewContent(new_count, known, c) ==
    IF new_count = 0 /\ known = 0
    THEN c + (IF articles_failed > 1 THEN articles_failed ELSE 1)
    ELSE 0

\* Lines 454-468: the empty and all-known counters after an iteration.
NextNoNewContent(new_count, known, c) ==
    IF new_count = 0 /\ known = 0 THEN c + 1 ELSE 0

\* An all-known counter that an iteration without new and without known
\* nodes leaves as it is.
UnresetAllKnown(new_count, known, c) ==
    IF new_count = 0 /\ known > 0 THEN c + 1
    ELSE IF new_count = 0 THEN c
    ELSE 0

NextAllKnown(new_count, known, c) ==
    IF new_count = 0 /\ known > 0 THEN c + 1 ELSE 0

\* A no-DOM-growth counter that a changed node count does not reset.
StickyNoScrollProgress(count, last, c) ==
    IF count = last THEN c + 1 ELSE c

\* Lines 442-446: the no-DOM-growth counter after an iteration that
\* rendered `count' nodes, `last' being last_article_count.
NextNoScrollProgress(count, last, c) ==
    IF count = last THEN c + 1 ELSE 0

\* Lines 439-469, after the for loop: new_articles_count and the three counters.
Tally ==
    /\ pc = "nodes"
    /\ nodes_left = 0
    /\ new_articles_count' = Len(articles_found) - initial_count
    /\ consecutive_no_scroll_progress' =
          NextNoScrollProgress(current_count, last_article_count,
                               consecutive_no_scroll_progress)
    /\ IF current_count = last_article_count
       THEN UNCHANGED last_article_count
       ELSE last_article_count' = current_count
    /\ consecutive_no_new_content' =
          NextNoNewContent(new_articles_count', articles_already_known,
                           consecutive_no_new_content)
    /\ consecutive_all_known_content' =
          NextAllKnown(new_articles_count', articles_already_known,
                       consecutive_all_known_content)
    /\ last_node' = NoNode
    /\ pc' = "save_progress"
    /\ UNCHANGED <<parseVars, run, endVars, scrapeVars, scraped_urls, browserVars, diskVars,
                   articles_found, loopVars, current_count, nodes_left, initial_count,
                   articles_extracted, articles_already_known, articles_failed>>

\* Line 472: the in-loop progress save is due (and _save_progress does not
\* return at once, line 579).
ProgressDue == Len(articles_found) % SaveInterval = 0 /\ articles_found # <<>>

\* A checkpoint that is skipped when the snapshot showed a known node too.
CheckpointOfFreshSnapshot == new_articles_count > 0 /\ articles_already_known = 0

\* A checkpoint that is due at the save interval only, like the progress save.
CheckpointAtInterval == Len(articles_found) % SaveInterval = 0 /\ articles_found # <<>>

\* Line 476: the in-loop checkpoint is due.
CheckpointDue == new_articles_count > 0 /\ Len(articles_found) > 0

\* Lines 471-473 and 579-591: when the save is due, _save_progress opens a
\* JSON file under a new name and writes the snapshot of articles_found.
SaveProgress ==
    /\ pc = "save_progress"
    /\ IF ProgressDue
       THEN /\ progress_file' = articles_found
            /\ pc' = "save_progress_csv"
       ELSE /\ UNCHANGED progress_file
            /\ pc' = "save_checkpoint"
    /\ UNCHANGED <<parseVars, run, endVars, scrapeVars, scraped_urls, browserVars, checkpoint_file,
                   articles_found, counterVars, loopVars, iterVars>>

\* Lines 591-599: the JSON file is closed and the CSV file written.
SaveProgressCsv ==
    /\ pc = "save_progress_csv"
    /\ pc' = "save_checkpoint"
    /\ UNCHANGED <<parseVars, run, endVars, scrapeVars, scraped_urls, browserVars, diskVars,
                   articles_found, counterVars, loopVars, iterVars>>

\* _save_progress raises in the loop (the disk is full, the directory is
\* gone): at the JSON file (lines 590-591), with no snapshot of this pass
\* on disk, or at the CSV file (lines 594-597), after the JSON snapshot was
\* written and closed.
SaveProgressFails ==
    /\ \/ pc = "save_progress" /\ ProgressDue
       \/ pc = "save_progress_csv"
    /\ Raise("save_progress")
    /\ UNCHANGED <<parseVars, run, scrapeVars, scraped_urls, browserVars, diskVars,
                   articles_found, counterVars, loopVars, iterVars>>

\* Line 613 raises in the loop: the open of checkpoint.json fails and the
\* file is as it was.
OpenCheckpointFails ==
    /\ pc = "save_checkpoint"
    /\ CheckpointDue
    /\ Raise("save_checkpoint")
    /\ UNCHANGED <<parseVars, run, scrapeVars, scraped_urls, browserVars, diskVars,
                   articles_found, counterVars, loopVars, iterVars>>

\* Lines 475-477 and 613: when the checkpoint is due, _save_checkpoint opens
\* checkpoint.json with mode 'w', which truncates it.
SaveCheckpoint ==
    /\ pc = "save_checkpoint"
    /\ IF CheckpointDue
       THEN checkpoint_file' = EmptyFile /\ pc' = "checkpoint_write"
       ELSE UNCHANGED checkpoint_file /\ pc' = "stop_check"
    /\ UNCHANGED <<parseVars, run, endVars, scrapeVars, scraped_urls, browserVars, progress_file,
                   articles_found, counterVars, loopVars, iterVars>>

\* Line 614: the one write of the whole checkpoint_data, from the loop.
WriteCheckpoint ==
    /\ pc = "checkpoint_write"
    /\ checkpoint_file' = CheckpointData(articles_found, scraped_urls)
    /\ pc' = "stop_check"
    /\ UNCHANGED <<parseVars, run, endVars, scrapeVars, scraped_urls, browserVars, progress_file,
                   articles_found, counterVars, loopVars, iterVars>>

\* The write raises: the file keeps what reached it, nothing or a prefix.
WriteCheckpointFails ==
    /\ pc = "checkpoint_write"
    /\ checkpoint_file' \in {EmptyFile, TruncatedFile}
    /\ Raise("checkpoint_write")
    /\ UNCHANGED <<parseVars, run, scrapeVars, scraped_urls, browserVars, progress_file,
                   articles_found, counterVars, loopVars, iterVars>>

\* The breaks tested with the empty counter first.
EmptyFirstStopReason(no_progress, no_new, all_known, all_known_limit) ==
    IF no_new >= max_consecutive_empty THEN "no_articles"
    ELSE IF no_progress >= no_scroll_progress_limit THEN "definitive_end"
    ELSE IF all_known >= all_known_limit THEN "scroll_limit"
    ELSE "none"

\* The breaks tested with the all-known counter first.
LimitFirstStopReason(no_progress, no_new, all_known, all_known_limit) ==
    IF all_known >= all_known_limit THEN "scroll_limit"
    ELSE IF no_progress >= no_scroll_progress_limit THEN "definitive_end"
    ELSE IF no_new >= max_consecutive_empty THEN "no_articles"
    ELSE "none"

\* The breaks without the test of the no-DOM-growth counter in front.
LastResortStopReason(no_progress, no_new, all_known, all_known_limit) ==
    IF no_new >= max_consecutive_empty THEN "no_articles"
    ELSE IF all_known >= all_known_limit THEN "scroll_limit"
    ELSE IF no_progress >= no_scroll_progress_limit THEN "definitive_end"
    ELSE "none"

\* Lines 480-490: the break that fires, in the order the code tests them.
StopReason(no_progress, no_new, all_known, all_known_limit) ==
    IF no_progress >= no_scroll_progress_limit THEN "definitive_end"
    ELSE IF no_new >= max_consecutive_empty THEN "no_articles"
    ELSE IF all_known >= all_known_limit THEN "scroll_limit"
    ELSE "none"

CurrentStopReason ==
    StopReason(consecutive_no_scroll_progress, consecutive_no_new_content,
               consecutive_all_known_content, max_consecutive_all_known)

\* Lines 495-504: the scroll an iteration performs when the loop goes on.
ScrollKind(known, extracted) ==
    IF known > 0 /\ extracted = 0 THEN "fast" ELSE "normal"

\* Lines 480-493: break, or count the scroll attempt and start the scroll.
\* The model follows the loop for at most `cap' scroll attempts.
StopCheck(cap) ==
    /\ pc = "stop_check"
    /\ IF CurrentStopReason # "none"
       THEN /\ stop_reason' = CurrentStopReason
            /\ pc' = "merge"
            /\ UNCHANGED scroll_attempts
       ELSE /\ scroll_attempts < cap
            /\ scroll_attempts' = scroll_attempts + 1
            /\ pc' = "scroll"
            /\ UNCHANGED stop_reason
    /\ UNCHANGED <<parseVars, run, endVars, scrapeVars, scraped_urls, browserVars, diskVars,
                   articles_found, counterVars, max_consecutive_all_known, last_scroll,
                   iterations, iterVars>>

\* Lines 495-507: the scroll of the attempt, the sleep after it and the wait
\* for the loading indicators; the loop goes back to its condition.
Scroll ==
    /\ pc = "scroll"
    /\ last_scroll' = ScrollKind(articles_already_known, articles_extracted)
    /\ pc' = "loop_top"
    /\ UNCHANGED <<parseVars, run, endVars, scrapeVars, scraped_urls, browserVars, diskVars,
                   articles_found, counterVars, max_consecutive_all_known, scroll_attempts,
                   stop_reason, iterations, iterVars>>

(* ------------------------------------------------------------------ *)
(* scrape_list after the loop (lines 670-702)                          *)
(* ------------------------------------------------------------------ *)

\* A merge that appends the whole list the loop returned.
MergeAll(existing, scraped) == existing \o scraped

\* A merge that puts the records the run added in front of the loaded ones.
MergeNewFirst(existing, scraped) ==
    SelectSeq(scraped, LAMBDA a : a.url \notin UrlsOf(existing)) \o existing

\* Lines 673-676: the records of the loop's list whose URL the loaded list
\* does not hold are appended to it.
MergeNew(existing, scraped) ==
    existing \o SelectSeq(scraped, LAMBDA a : a.url \notin UrlsOf(existing))

Merge ==
    /\ pc = "merge"
    /\ articles' = MergeNew(articles, articles_found)
    /\ pc' = "final_progress"
    /\ UNCHANGED <<parseVars, run, endVars, initial_article_count, scraped_urls, browserVars,
                   diskVars, articles_found, counterVars, loopVars, iterVars>>

\* Lines 584-590: a snapshot file is named after the second of the clock.
\* The final save follows the progress save of the iteration that left the
\* loop through a break without a sleep in between, so it opens that
\* iteration's file again, which the mode 'w' empties, unless the clock has
\* moved on to the next second; after a scroll (lines 498 and 503 sleep 2
\* or 3 seconds) the name is a new one and the newest snapshot stays.
SnapshotsAfterFinalOpen ==
    IF stop_reason # "none" /\ ProgressDue THEN {<<>>, progress_file} ELSE {progress_file}

\* Line 679: the final _save_progress(articles) returns at once without
\* articles (line 579), and opens its JSON file otherwise (line 590).
FinalProgress ==
    /\ pc = "final_progress"
    /\ IF articles # <<>>
       THEN /\ progress_file' \in SnapshotsAfterFinalOpen
            /\ pc' = "final_progress_write"
       ELSE /\ UNCHANGED progress_file
            /\ pc' = "final_checkpoint"
    /\ UNCHANGED <<parseVars, run, endVars, scrapeVars, scraped_urls, browserVars, checkpoint_file,
                   articles_found, counterVars, loopVars, iterVars>>

\* Line 591: the JSON snapshot of articles is written.
FinalProgressWrite ==
    /\ pc = "final_progress_write"
    /\ progress_file' = articles
    /\ pc' = "final_progress_csv"
    /\ UNCHANGED <<parseVars, run, endVars, scrapeVars, scraped_urls, browserVars, checkpoint_file,
                   articles_found, counterVars, loopVars, iterVars>>

\* Lines 591-599: the JSON file is closed and the CSV file written.
FinalProgressCsv ==
    /\ pc = "final_progress_csv"
    /\ pc' = "final_checkpoint"
    /\ UNCHANGED <<parseVars, run, endVars, scrapeVars, scraped_urls, browserVars, diskVars,
                   articles_found, counterVars, loopVars, iterVars>>

\* The final _save_progress raises: at the open of the JSON file (nothing
\* on disk changes), at its write (the file stays as the open left it, no
\* complete snapshot in it), or at the CSV file, after the JSON snapshot of
\* articles was written and closed.
FinalProgressFails ==
    /\ \/ pc = "final_progress" /\ articles # <<>>
       \/ pc = "final_progress_write"
       \/ pc = "final_progress_csv"
    /\ Raise("final_progress")
    /\ UNCHANGED <<parseVars, run, scrapeVars, scraped_urls, browserVars, diskVars,
                   articles_found, counterVars, loopVars, iterVars>>

\* Line 613 raises for the final checkpoint: the file is as it was.
FinalOpenCheckpointFails ==
    /\ pc = "final_checkpoint"
    /\ Raise("final_checkpoint")
    /\ UNCHANGED <<parseVars, run, scrapeVars, scraped_urls, browserVars, diskVars,
                   articles_found, counterVars, loopVars, iterVars>>

\* Line 682: the final _save_checkpoint(articles) opens the file.
FinalCheckpoint ==
    /\ pc = "final_checkpoint"
    /\ checkpoint_file' = EmptyFile
    /\ pc' = "final_checkpoint_write"
    /\ UNCHANGED <<parseVars, run, endVars, scrapeVars, scraped_urls, browserVars, progress_file,
                   articles_found, counterVars, loopVars, iterVars>>

\* Line 614 for the final checkpoint: the write; the file is then closed.
FinalWriteCheckpoint ==
    /\ pc = "final_checkpoint_write"
    /\ checkpoint_file' = CheckpointData(articles, scraped_urls)
    /\ pc' = "summary"
    /\ UNCHANGED <<parseVars, run, endVars, scrapeVars, scraped_urls, browserVars, progress_file,
                   articles_found, counterVars, loopVars, iterVars>>

\* Lines 684-695: the file closed, the session log lines, _generate_summary
\* and the return of articles.
GenerateSummary ==
    /\ pc = "summary"
    /\ outcome' = "returned"
    /\ pc' = "cleanup"
    /\ UNCHANGED <<parseVars, run, raised_at, scrapeVars, scraped_urls, browserVars, diskVars,
                   articles_found, counterVars, loopVars, iterVars>>

\* _generate_summary raises at its summary file (lines 754-756); with no
\* article it returns before it opens one (lines 707-709).
GenerateSummaryFails ==
    /\ pc = "summary"
    /\ articles # <<>>
    /\ Raise("summary")
    /\ UNCHANGED <<parseVars, run, scrapeVars, scraped_urls, browserVars, diskVars,
                   articles_found, counterVars, loopVars, iterVars>>

FinalWriteCheckpointFails ==
    /\ pc = "final_checkpoint_write"
    /\ checkpoint_file' \in {EmptyFile, TruncatedFile}
    /\ Raise("final_checkpoint_write")
    /\ UNCHANGED <<parseVars, run, scrapeVars, scraped_urls, browserVars, progress_file,
                   articles_found, counterVars, loopVars, iterVars>>

(* ------------------------------------------------------------------ *)
(* _cleanup (lines 759-773) and cancellation                           *)
(* ------------------------------------------------------------------ *)

Close(resource) == IF resource = "none" THEN "none" ELSE "closed"

\* The places of _cleanup: before the close of the page (line 763), of the
\* context (line 765) and of the browser (line 767).
CleanupPlaces == {"cleanup", "close_context", "close_browser"}

\* The resource _cleanup closes next.
Closing == IF pc = "cleanup" THEN page ELSE IF pc = "close_context" THEN context ELSE browser

\* Lines 763-764: the page is closed when there is one.
ClosePage ==
    /\ pc = "cleanup"
    /\ page' = Close(page)
    /\ pc' = "close_context"
    /\ UNCHANGED <<context, browser>>

\* Lines 765-766: the context is closed when there is one.
CloseContext ==
    /\ pc = "close_context"
    /\ context' = Close(context)
    /\ pc' = "close_browser"
    /\ UNCHANGED <<page, browser>>

\* Lines 767-768: the browser is closed when there is one, and _cleanup and
\* with it the call are over.
CloseBrowser ==
    /\ pc = "close_browser"
    /\ browser' = Close(browser)
    /\ pc' = "done"
    /\ UNCHANGED <<page, context>>

\* _cleanup closes the page, the context and the browser, in this order,
\* each at an await of its own.
Cleanup ==
    /\ ClosePage \/ CloseContext \/ CloseBrowser
    /\ UNCHANGED <<parseVars, run, endVars, scrapeVars, scraped_urls, diskVars,
                   articles_found, counterVars, loopVars, iterVars>>

\* One close raises: the one try block of _cleanup is left, the closes
\* after it are not made, the handler of lines 771-772 logs the exception
\* and the call ends as it was about to end.
CleanupFails ==
    /\ pc \in CleanupPlaces
    /\ Closing # "none"
    /\ pc' = "done"
    /\ UNCHANGED <<parseVars, run, endVars, scrapeVars, scraped_urls, browserVars, diskVars,
                   articles_found, counterVars, loopVars, iterVars>>

\* The task is cancelled while _cleanup awaits one of its closes (lines
\* 763-768): CancelledError is no Exception, the handler of line 771 does
\* not catch it, it leaves _cleanup and the finally clause of scrape_list
\* and replaces the return value or the exception the call was about to
\* end with. The close that was awaited has been made or not, the closes
\* after it are not made.
CancelCleanup ==
    /\ pc \in CleanupPlaces
    /\ Closing # "none"
    /\ page' \in IF pc = "cleanup" THEN {page, Close(page)} ELSE {page}
    /\ context' \in IF pc = "close_context" THEN {context, Close(context)} ELSE {context}
    /\ browser' \in IF pc = "close_browser" THEN {browser, Close(browser)} ELSE {browser}
    /\ outcome' = "cancelled"
    /\ raised_at' = pc
    /\ pc' = "done"
    /\ UNCHANGED <<parseVars, run, scrapeVars, scraped_urls, diskVars,
                   articles_found, counterVars, loopVars, iterVars>>

\* The call is suspended in an await: the places a cancellation (the user's
\* interrupt, delivered by asyncio as CancelledError) can arrive.
Suspended ==
    \/ pc \in {"init_browser", "new_context", "new_page", "navigate", "checkpoint_write",
               "scroll", "save_progress_csv", "final_progress_write",
               "final_progress_csv", "final_checkpoint",
               "final_checkpoint_write", "summary"}
    \/ pc = "loop_top" /\ WhileCondition
    \/ pc = "nodes" /\ nodes_left > 0
    \/ pc = "save_progress" /\ ProgressDue
    \/ pc = "save_checkpoint" /\ CheckpointDue
    \/ pc = "stop_check" /\ CheckpointDue
    \/ pc = "final_progress" /\ articles # <<>>

\* CancelledError is no Exception: neither the loop's handlers (lines 314,
\* 435) nor scrape_list's except clause (line 697) catch it, the finally
\* clause (lines 701-702) runs _cleanup.
Cancel ==
    /\ Suspended
    /\ outcome' = "cancelled"
    /\ raised_at' = pc
    /\ pc' = "cleanup"
    /\ UNCHANGED <<parseVars, run, scrapeVars, scraped_urls, browserVars, diskVars,
                   articles_found, counterVars, loopVars, iterVars>>

(* ------------------------------------------------------------------ *)
(* Specifications                                                      *)
(* ------------------------------------------------------------------ *)

\* One call of scrape_list on a fresh scraper, as main() makes it, with
\* every failure and a cancellation at every await.
Next ==
    \/ Start \/ LoadCheckpoint \/ LoadCheckpointFails \/ CancelLoad
    \/ InitBrowser \/ InitBrowserFails
    \/ Navigate \/ NavigateFails
    \/ LoopTop(0..MaxNodes) \/ SnapshotFails
    \/ ProcessNode(AllNodes)
    \/ Tally
    \/ SaveProgress \/ SaveProgressCsv \/ SaveProgressFails
    \/ SaveCheckpoint \/ OpenCheckpointFails \/ WriteCheckpoint \/ WriteCheckpointFails
    \/ StopCheck(MaxScrolls) \/ Scroll
    \/ Merge
    \/ FinalProgress \/ FinalProgressWrite \/ FinalProgressCsv \/ FinalProgressFails
    \/ FinalCheckpoint \/ FinalWriteCheckpoint \/ FinalWriteCheckpointFails
    \/ FinalOpenCheckpointFails \/ GenerateSummary \/ GenerateSummaryFails
    \/ Cleanup \/ CleanupFails \/ CancelCleanup
    \/ Cancel

Spec == Init /\ [][Next]_vars

\* The same, with further calls of scrape_list on the same scraper.
NextReuse == Next \/ StartOther

SpecReuse == Init /\ [][NextReuse]_vars

\* The loop alone, on every feed of up to MaxNodes nodes per snapshot,
\* without failures of the disk or the browser and without cancellation,
\* followed for MaxStopScrolls scroll attempts.
InitStop == InitWith(StopInitFiles)

NextStop ==
    \/ Start \/ LoadCheckpoint
    \/ InitBrowser
    \/ Navigate
    \/ LoopTop(0..MaxNodes)
    \/ ProcessNode(StopNodes)
    \/ Tally
    \/ SaveProgress \/ SaveProgressCsv
    \/ SaveCheckpoint \/ WriteCheckpoint
    \/ StopCheck(MaxStopScrolls) \/ Scroll
    \/ Merge
    \/ FinalProgress \/ FinalProgressWrite \/ FinalProgressCsv
    \/ FinalCheckpoint \/ FinalWriteCheckpoint \/ GenerateSummary
    \/ Cleanup

SpecStop == InitStop /\ [][NextStop]_vars

\* The nodes of a feed that yields no new record and, in every iteration,
\* at least one node the ledger knows: a node is known or fails, and the
\* last node of a snapshot without a known node so far is known.
KnownFeedNodes ==
    {node \in StopNodes :
        LET v == Verdict(node, scraped_urls, articles_found)
        IN  /\ v \in {"known", "raised", "failed", "duplicate"}
            /\ (nodes_left = 1 /\ articles_already_known = 0) => v = "known"}

\* The loop on such a feed after a resume, followed to its end. The running
\* list stays at the one loaded record, so no in-loop progress save is due
\* and none reaches its CSV file.
InitKnown == InitWith({CheckpointData(<<Earlier(UrlA)>>, {UrlA})})

NextKnown ==
    \/ Start \/ LoadCheckpoint
    \/ InitBrowser
    \/ Navigate
    \/ LoopTop(1..MaxNodes)
    \/ ProcessNode(KnownFeedNodes)
    \/ Tally
    \/ SaveProgress
    \/ SaveCheckpoint
    \/ StopCheck(max_scroll_attempts) \/ Scroll
    \/ Merge
    \/ FinalProgress \/ FinalProgressWrite \/ FinalProgressCsv
    \/ FinalCheckpoint \/ FinalWriteCheckpoint \/ GenerateSummary
    \/ Cleanup

SpecKnown == InitKnown /\ [][NextKnown]_vars

\* A feed that never ends: every FeedPeriod-th snapshot ends with a node
\* whose URL no snapshot has shown before, every other node is the node of
\* the first record, and the number of rendered nodes changes from each
\* snapshot to the next, so that none of the three counters reaches its limit.
FreshNode(attempts) == [link |-> "attr", href |-> <<"/", ToString(attempts)>>, fails |-> "no"]

EndlessFeedNodes ==
    IF scroll_attempts % FeedPeriod = 0 /\ nodes_left = 1
    THEN {FreshNode(scroll_attempts)}
    ELSE {FreshNode(0)}

EndlessFeedCounts == {1 + (scroll_attempts % 2)}

InitCeiling == InitWith({NoFile})

\* The loop on that feed, followed until it ends by itself, with a disk and
\* a browser that work.
NextCeiling ==
    \/ Start
    \/ InitBrowser
    \/ Navigate
    \/ LoopTop(EndlessFeedCounts)
    \/ ProcessNode(EndlessFeedNodes)
    \/ Tally
    \/ SaveProgress \/ SaveProgressCsv
    \/ SaveCheckpoint \/ WriteCheckpoint
    \/ StopCheck(max_scroll_attempts + 1) \/ Scroll
    \/ Merge
    \/ FinalProgress \/ FinalProgressWrite \/ FinalProgressCsv
    \/ FinalCheckpoint \/ FinalWriteCheckpoint \/ GenerateSummary
    \/ Cleanup

\* Every driver and disk call returns, and the event loop resumes the
\* coroutine each time.
SpecCeiling == InitCeiling /\ [][NextCeiling]_vars /\ WF_vars(NextCeiling)

\* The largest number of loaded records for which the all-known threshold is
\* still its minimum.
LargestAtMinimum ==
    articles_per_scroll * (min_all_known_limit - all_known_margin + 1) - 1

\* The numbers of records a resumed run loads.
LoadedCounts == {0, 1, LargestAtMinimum, LargestAtMinimum + 1}

NumberedUrl(i) == Origin \o <<"/", ToString(i)>>

\* The checkpoint of an earlier run that captured the URLs 1 to n and
\* returned: for n = 0 the file that _save_checkpoint([]) writes.
EarlierRun(n) ==
    CheckpointData([i \in 1..n |-> Earlier(NumberedUrl(i))],
                   {NumberedUrl(i) : i \in 1..n})

\* A feed of one node per snapshot: the node of URL 1, or the node of the
\* first URL the running list does not hold.
ResumedFeedNodes == {FreshNode(1), FreshNode(Len(articles_found) + 1)}

InitThreshold == InitWith({EarlierRun(n) : n \in LoadedCounts})

\* The start of a run resumed from such a checkpoint and its first
\* iterations on that feed.
NextThreshold ==
    \/ Start \/ LoadCheckpoint
    \/ InitBrowser
    \/ Navigate
    \/ LoopTop({1})
    \/ ProcessNode(ResumedFeedNodes)
    \/ Tally
    \/ SaveProgress \/ SaveProgressCsv
    \/ SaveCheckpoint \/ WriteCheckpoint
    \/ StopCheck(MaxScrolls) \/ Scroll

SpecThreshold == InitThreshold /\ [][NextThreshold]_vars

HrefB == <<"/", "b">>

UrlB == Origin \o HrefB

\* Checkpoints whose record list repeats a URL, with a ledger that holds
\* the URL and with one that does not, next to no checkpoint and to the
\* checkpoint of one record.
RepeatedInitFiles ==
    { NoFile,
      CheckpointData(<<Earlier(UrlA)>>, {UrlA}),
      CheckpointData(<<Earlier(UrlA), Earlier(UrlA)>>, {UrlA}),
      CheckpointData(<<Earlier(UrlB), Earlier(UrlA), Earlier(UrlB)>>, {}) }

\* Nodes that extract: the nodes of two URLs and a node without one.
MergeNodes == [link : {"attr"}, href : {HrefA, HrefB, <<>>}, fails : {"no"}]

InitMerge == InitWith(RepeatedInitFiles)

\* A whole call of scrape_list on a feed of such nodes, from such a
\* checkpoint, with a disk and a browser that work, followed for one scroll
\* attempt more than MaxScrolls: the loop can add records and then end
\* through max_consecutive_empty empty iterations.
NextMerge ==
    \/ Start \/ LoadCheckpoint
    \/ InitBrowser
    \/ Navigate
    \/ LoopTop(0..MaxNodes)
    \/ ProcessNode(MergeNodes)
    \/ Tally
    \/ SaveProgress \/ SaveProgressCsv
    \/ SaveCheckpoint \/ WriteCheckpoint
    \/ StopCheck(MaxScrolls + 1) \/ Scroll
    \/ Merge
    \/ FinalProgress \/ FinalProgressWrite \/ FinalProgressCsv
    \/ FinalCheckpoint \/ FinalWriteCheckpoint \/ GenerateSummary
    \/ Cleanup

SpecMerge == InitMerge /\ [][NextMerge]_vars

\* _extract_article_data hands the text of the claps element to
\* _parse_claps (lines 274-275).
ParseClaps ==
    /\ pc = "idle"
    /\ claps' = _parse_claps(claps_text)
    /\ pc' = "parsed"
    /\ UNCHANGED <<claps_text, numberVars, urlVars, run, endVars, scrapeVars, scraped_urls,
                   browserVars, diskVars, articles_found, counterVars, loopVars, iterVars>>

\* _parse_claps on every text of up to MaxLines lines.
InitParse ==
    /\ InitScraper({NoFile})
    /\ claps_text \in ClapsTexts
    /\ claps = 0
    /\ NoNumber
    /\ NoUrl

NextParse == ParseClaps

SpecParse == InitParse /\ [][NextParse]_vars

\* _extract_article_data hands the text of the responses element to
\* _parse_number (lines 281-282).
ParseNumber ==
    /\ pc = "idle"
    /\ number' = parse_number(number_text)
    /\ pc' = "number_parsed"
    /\ UNCHANGED <<number_text, clapsVars, urlVars, run, endVars, scrapeVars, scraped_urls,
                   browserVars, diskVars, articles_found, counterVars, loopVars, iterVars>>

\* parse_number on every text of up to MaxChars characters.
InitNumber ==
    /\ InitScraper({NoFile})
    /\ NoClaps
    /\ number_text \in NumberTexts
    /\ number = <<0>>
    /\ NoUrl

NextNumber == ParseNumber

SpecNumber == InitNumber /\ [][NextNumber]_vars

\* A node with the given data-href, whose driver calls all return.
NodeWith(data_href) == [link |-> "attr", href |-> data_href, fails |-> "no"]

\* The value goes through normalize_url, and as the data-href of a node
\* through the resolution of _extract_article_data (lines 284-295) and
\* through the loop's probe (lines 409-419).
NormalizeUrl ==
    /\ pc = "idle"
    /\ normalized_url' = normalize_url(url_text)
    /\ extracted_url' = ExtractUrl(NodeWith(url_text))
    /\ probed_url' = IF url_text = <<>> THEN <<>> ELSE ProbeUrl(url_text)
    /\ pc' = "url_normalized"
    /\ UNCHANGED <<url_text, clapsVars, numberVars, run, endVars, scrapeVars, scraped_urls,
                   browserVars, diskVars, articles_found, counterVars, loopVars, iterVars>>

\* The URL normalization on every value of UrlTexts.
InitUrl ==
    /\ InitScraper({NoFile})
    /\ NoClaps
    /\ NoNumber
    /\ url_text \in UrlTexts
    /\ normalized_url = <<>>
    /\ extracted_url = <<>>
    /\ probed_url = <<>>

NextUrl == NormalizeUrl

SpecUrl == InitUrl /\ [][NextUrl]_vars

(* ------------------------------------------------------------------ *)
(* Properties                                                          *)
(* ------------------------------------------------------------------ *)

\* The loop has been left through a break or its while test.
AfterLoop ==
    pc \in {"merge", "final_progress", "final_progress_write", "final_progress_csv",
            "final_checkpoint", "final_checkpoint_write", "summary"}
    \/ (pc \in (CleanupPlaces \cup {"done"}) /\ outcome = "returned" /\ max_consecutive_all_known > 0)

\* The places of the loop.
LoopPlaces == {"loop_top", "nodes", "save_progress", "save_progress_csv",
               "save_checkpoint", "checkpoint_write", "stop_check", "scroll"}

\* C1: once the rendered-node count has been the same for 10 consecutive
\* iterations (the no-DOM-growth counter is 10), the loop does not go on to
\* another iteration, and it is left with the "definitive end" reason and
\* no other, whatever the other counters are.
C1_DefinitiveEnd ==
    /\ pc \in {"loop_top", "nodes"} =>
          consecutive_no_scroll_progress < no_scroll_progress_limit
    /\ (AfterLoop /\ consecutive_no_scroll_progress >= no_scroll_progress_limit) =>
          stop_reason = "definitive_end"
    /\ stop_reason = "definitive_end" =>
          consecutive_no_scroll_progress = no_scroll_progress_limit

\* C1, its case: the loop left with the no-DOM-growth counter at 10 in an
\* iteration in which the empty counter reached its limit too.
C1_Witness ==
    /\ pc = "merge"
    /\ stop_reason = "definitive_end"
    /\ consecutive_no_new_content >= max_consecutive_empty

\* C2 as stated: on a feed of known nodes and no new record the loop is
\* left only with the "scroll limit" reason, in the iteration in which the
\* all-known counter reaches the dynamic threshold.
C2_Original ==
    AfterLoop =>
        /\ stop_reason = "scroll_limit"
        /\ consecutive_all_known_content = max_consecutive_all_known

\* C2 amended: on such a feed the all-known counter counts the iterations;
\* the loop is left with "scroll limit" exactly when that counter reaches
\* the threshold while the no-DOM-growth counter is below 10, and with
\* "definitive end" when the no-DOM-growth counter reaches 10 in that
\* iteration or before; it never goes on past the threshold.
C2_ScrollLimit ==
    /\ pc \in {"save_progress", "save_progress_csv", "save_checkpoint", "stop_check"} =>
          consecutive_all_known_content = scroll_attempts + 1
    /\ pc \in {"loop_top", "nodes"} =>
          consecutive_all_known_content < max_consecutive_all_known
    /\ AfterLoop =>
          /\ stop_reason \in {"scroll_limit", "definitive_end"}
          /\ stop_reason = "scroll_limit" <=>
                /\ consecutive_all_known_content = max_consecutive_all_known
                /\ consecutive_no_scroll_progress < no_scroll_progress_limit
          /\ stop_reason = "definitive_end" <=>
                consecutive_no_scroll_progress = no_scroll_progress_limit

\* C2, its case: the loop left with the "scroll limit" reason.
C2_Witness ==
    /\ pc = "merge"
    /\ stop_reason = "scroll_limit"
    /\ consecutive_all_known_content = estimated_scrolls_needed(Len(articles))

\* A step of the for loop body on one node.
NodeStep == pc = "nodes" /\ nodes_left' = nodes_left - 1

\* _extract_article_data was called for the node (it may have raised inside).
ExtractionRan(verdict) == verdict \in {"new", "duplicate", "failed"}

\* C3 as stated: once a URL is in the ledger, full extraction is not run on
\* a node carrying that URL (whatever its data-href, a missing or empty one
\* included), and no record with that URL is appended.
C3_Original ==
    [][NodeStep =>
          /\ ExtractionRan(last_node'.verdict) =>
                ExtractUrl(last_node'.node) \notin scraped_urls
          /\ articles_found' # articles_found =>
                articles_found'[Len(articles_found')].url \notin scraped_urls]_vars

\* C3 amended: full extraction is not run on a node whose cheap probe
\* yields a URL of the ledger (the node is counted known and changes
\* nothing); every other node whose probe does not raise is fully extracted,
\* also when the URL it carries is in the ledger; a record is appended only
\* at the end of the list and only if its URL is neither in the ledger nor
\* in the list; the ledger only grows.
C3_NoReappend ==
    [][NodeStep =>
          /\ (last_node'.node.fails # "probe" /\ ProbeKnown(last_node'.node, scraped_urls)) =>
                /\ last_node'.verdict = "known"
                /\ articles_found' = articles_found
                /\ scraped_urls' = scraped_urls
          /\ (last_node'.node.fails # "probe" /\ ~ProbeKnown(last_node'.node, scraped_urls)) =>
                ExtractionRan(last_node'.verdict)
          /\ articles_found' # articles_found =>
                LET u == articles_found'[Len(articles_found')].url
                IN  /\ articles_found' = Append(articles_found, Article(u, Now(u, scraped_urls)))
                    /\ u = ExtractUrl(last_node'.node)
                    /\ u \notin scraped_urls
                    /\ u \notin UrlsOf(articles_found)
          /\ scraped_urls \subseteq scraped_urls']_vars

\* C3, its case: a node without a data-href is rendered again after its
\* (empty) URL entered the ledger; it is extracted again and not appended.
C3_Witness ==
    /\ pc = "nodes"
    /\ last_node.verdict = "duplicate"
    /\ last_node.node.link # "attr"
    /\ <<>> \in scraped_urls

\* C4: every checkpoint a run writes stores under scraped_urls exactly the
\* URLs of the records it stores under articles, and under total_articles
\* their number.
C4_CheckpointConsistent ==
    [][(checkpoint_file' # checkpoint_file /\ checkpoint_file'.kind = "json") =>
          /\ SetOfList(checkpoint_file'.scraped_urls) = UrlsOf(StoredRecords(checkpoint_file'))
          /\ checkpoint_file'.total_articles = Len(checkpoint_file'.articles)]_vars

\* C5: after a crash or an interruption during a checkpoint write the file
\* is a complete checkpoint, never empty and never a prefix of one.
C5_AtomicCheckpoint ==
    (outcome \in {"cancelled", "raised"}
     /\ raised_at \in {"checkpoint_write", "final_checkpoint_write"}) =>
        checkpoint_file.kind \notin {"empty", "truncated"}

\* C6: a call that a cancellation ended inside the try block of
\* scrape_list or before it has attempted the final persistence write (the
\* final progress save and the final checkpoint, lines 678-682) by the
\* time it has finished.
C6_FinalSaveOnInterrupt ==
    (pc = "done" /\ outcome = "cancelled" /\ raised_at \notin CleanupPlaces) =>
        raised_at \in {"final_checkpoint", "final_checkpoint_write", "summary"}

\* C7: when a cancellation arrives in the loop after new records have been
\* merged into the running list, the checkpoint on disk after cleanup
\* holds exactly the running list.
C7_CheckpointAfterCancel ==
    (pc = "done" /\ outcome = "cancelled" /\ raised_at \in LoopPlaces
     /\ Len(articles_found) > initial_article_count) =>
        /\ Loadable(checkpoint_file)
        /\ checkpoint_file.articles = ArticleDicts(articles_found)

\* C8: when scrape_list has returned or raised, none of the page, the
\* context and the browser is left open.
C8_DriverReleased ==
    pc = "done" => (page # "open" /\ context # "open" /\ browser # "open")

\* C9: a checkpoint write that raises in the loop (at the open of the
\* file or at the write) does not end the loop.
C9_WriteFailureContinues ==
    raised_at \in {"save_checkpoint", "checkpoint_write"} => outcome # "raised"

\* C10: after a load that found no checkpoint or a malformed one, the call
\* goes on as one without a checkpoint: an empty list, an empty ledger,
\* nothing of the file loaded.
C10_LoadFailure ==
    (pc = "init_browser" /\ ~Loadable(checkpoint_file)) =>
        /\ articles = <<>>
        /\ initial_article_count = 0
        /\ scraped_urls = {}

\* C10, its case: the call has loaded a JSON file that has both keys and
\* URLs under scraped_urls, and a record with wrong fields.
C10_Witness ==
    /\ pc = "init_browser"
    /\ checkpoint_file.kind = "json"
    /\ checkpoint_file.has_urls /\ SetOfList(checkpoint_file.scraped_urls) # {}
    /\ ~checkpoint_file.records_ok

\* _navigate_to_list returned False: the call returned without entering
\* _scroll_and_load_content.
NavigationFailed == outcome = "returned" /\ max_consecutive_all_known = 0

\* C11: after a failed navigation the call has run no loop iteration, has
\* written neither a progress file nor a checkpoint, returns the records it
\* loaded, and has released the page, the context and the browser.
C11_NavigationFailure ==
    (pc = "done" /\ NavigationFailed) =>
        /\ scroll_attempts = 0 /\ current_count = 0 /\ articles_found = <<>>
        /\ progress_file = <<>>
        /\ checkpoint_file \in InitFiles
        /\ articles \in {<<>>, _load_checkpoint(checkpoint_file, {}).articles}
        /\ page = "closed" /\ context = "closed" /\ browser = "closed"

\* C12: once an exception has left _init_browser, the scroll loop or a
\* final save, the caller of scrape_list gets this exception: the call is
\* over only after _cleanup has run, and it ends as raised, not as returned
\* and not with anything else in the exception's place.
C12_RaisedAfterCleanup ==
    [][/\ (outcome' = "raised" /\ pc' = "done") => pc \in (CleanupPlaces \cup {"done"})
       /\ (outcome = "raised" /\ pc \in (CleanupPlaces \cup {"done"})) => outcome' = "raised"]_vars

\* C13: after an exception has left the loop with records accumulated in
\* this run, the call makes a final save before it does anything else: its
\* next step is not the release of the driver.
C13_FinalSaveOnException ==
    [][(pc = "cleanup" /\ outcome = "raised" /\ raised_at \in LoopPlaces
        /\ Len(articles_found) > initial_article_count)
       => pc' \in {"final_progress", "final_checkpoint"}]_vars

\* C14: a checkpoint that _save_checkpoint has written is read back by
\* _load_checkpoint on a new scraper as the saved record list (the same
\* records, count and order) and as a ledger equal to the saved ledger.
C14_CheckpointRoundTrip ==
    [][(checkpoint_file' # checkpoint_file /\ checkpoint_file'.kind = "json") =>
          LET saved == IF pc = "checkpoint_write" THEN articles_found ELSE articles
              loaded == _load_checkpoint(checkpoint_file', {})
          IN  /\ Len(loaded.articles) = Len(saved)
              /\ loaded.articles = saved
              /\ loaded.scraped_urls = scraped_urls]_vars

\* C14, its case: a checkpoint written with two records, one of them with
\* the empty URL, and both URLs in its ledger.
C14_Witness ==
    /\ pc = "stop_check"
    /\ checkpoint_file.kind = "json"
    /\ Len(checkpoint_file.articles) = 2
    /\ SetOfList(checkpoint_file.scraped_urls) = {<<>>, UrlA}

\* No two records of the list have the same URL.
NoDuplicateUrls(list) ==
    \A i, j \in 1..Len(list) : list[i].url = list[j].url => i = j

\* C15: the running list and the list scrape_list returns never hold two
\* records with the same URL, and a node that has been processed is not
\* appended when it is processed again: right after a node has been
\* processed, processing the same node once more would append nothing.
C15_LedgerIdempotence ==
    [][/\ NoDuplicateUrls(articles_found') /\ NoDuplicateUrls(articles')
       /\ NodeStep =>
             Verdict(last_node'.node, scraped_urls', articles_found') # "new"]_vars

\* C15, its case: one snapshot rendered the same URL twice; the first node
\* was appended, the second was extracted and dropped.
C15_Witness ==
    /\ pc = "nodes"
    /\ current_count = 2 /\ nodes_left = 0
    /\ articles_extracted = 1
    /\ last_node.verdict = "duplicate"
    /\ ExtractUrl(last_node.node) = articles_found[Len(articles_found)].url

\* s is the beginning of t.
IsPrefix(s, t) == Len(s) <= Len(t) /\ SubSeq(t, 1, Len(s)) = s

\* C16: every step leaves the running list, and the list scrape_list
\* returns, as a beginning of what they become (records are only appended,
\* none is removed, moved or replaced), and the ledger as a subset of what
\* it becomes; a node appends at most its own record, at the end; no record
\* in a list was built from a URL seen again; the merged list is the
\* running list, with the loaded records as its beginning.
C16_AppendOnly ==
    [][/\ IsPrefix(articles_found, articles_found')
       /\ IsPrefix(articles, articles')
       /\ scraped_urls \subseteq scraped_urls'
       /\ NodeStep =>
             \/ articles_found' = articles_found
             \/ /\ Len(articles_found') = Len(articles_found) + 1
                /\ articles_found'[Len(articles_found')].url = ExtractUrl(last_node'.node)
       /\ \A i \in 1..Len(articles_found') : articles_found'[i].extracted_at < 2
       /\ (pc = "merge" /\ pc' = "final_progress") =>
             /\ articles' = articles_found
             /\ \A i \in 1..initial_article_count : articles'[i].extracted_at = 0]_vars

\* C16, its case: the URL of a record captured in this run, behind a record
\* loaded from the checkpoint, is seen again, and the list keeps both
\* records as they were.
C16_Witness ==
    /\ pc = "nodes"
    /\ last_node.verdict = "duplicate"
    /\ articles_found = <<Earlier(UrlA), Article(<<>>, 1)>>

\* C17: a node whose probe or whose extraction raises is counted as failed
\* and nothing else happens: the for loop goes on with the nodes that are
\* left, the iteration goes on to its tally, and no exception leaves the
\* loop from the processing of a node.
C17_NodeFailureIsolated ==
    [][/\ (NodeStep /\ last_node'.verdict \in {"raised", "failed"}) =>
             /\ pc' = "nodes"
             /\ outcome' = outcome /\ raised_at' = raised_at
             /\ nodes_left' = nodes_left - 1
             /\ articles_failed' = articles_failed + 1
             /\ articles_extracted' = articles_extracted
             /\ articles_already_known' = articles_already_known
       /\ (outcome' = "raised") => raised_at' # "nodes"
       /\ (pc = "nodes" /\ pc' # "nodes" /\ outcome' # "cancelled") =>
             (nodes_left = 0 /\ pc' = "save_progress")]_vars

\* C17, its case: in one snapshot a node failed and the node after it was
\* captured.
C17_Witness ==
    /\ pc = "nodes"
    /\ articles_failed = 1
    /\ articles_extracted = 1
    /\ last_node.verdict = "new"

\* C18: the loop never makes more than 5000 scroll attempts, and on a feed
\* that never ends the call comes to its end.
C18_LoopTerminates ==
    /\ [](scroll_attempts <= max_scroll_attempts)
    /\ <>[](pc = "done")

\* C18, its case: the while condition ended the loop at the ceiling, no
\* break having fired, with records still arriving.
C18_Witness ==
    /\ pc = "merge"
    /\ scroll_attempts = max_scroll_attempts
    /\ stop_reason = "none"
    /\ Len(articles_found) * FeedPeriod >= max_scroll_attempts

\* C19: when the loop has ended through a stop condition, the driver is
\* still held while the final state is saved, and at the return the
\* checkpoint on disk holds the returned list with the ledger, the progress
\* snapshot holds the returned list, and the returned list is the records
\* loaded from the checkpoint followed by the records captured in this run.
C19_FinalStatePersisted ==
    /\ pc \in {"merge", "final_progress", "final_progress_write", "final_progress_csv",
               "final_checkpoint", "final_checkpoint_write", "summary"} =>
          (page = "open" /\ context = "open" /\ browser = "open")
    /\ (pc \in (CleanupPlaces \cup {"done"}) /\ outcome = "returned" /\ ~NavigationFailed) =>
          /\ stop_reason # "none"
          /\ checkpoint_file = CheckpointData(articles, scraped_urls)
          /\ articles # <<>> => progress_file = articles
          /\ articles = articles_found
          /\ Len(articles) >= initial_article_count
          /\ \A i \in 1..Len(articles) :
                articles[i].extracted_at = (IF i <= initial_article_count THEN 0 ELSE 1)

\* C19, its case: a run that loaded one record and captured another has
\* returned after a stop condition ended its loop.
C19_Witness ==
    /\ pc = "done"
    /\ outcome = "returned"
    /\ stop_reason # "none"
    /\ initial_article_count = 1
    /\ Len(articles) = 2

\* C20: for a text with exactly 3 non-empty lines _parse_claps returns the
\* middle line as the clap count (when it is a number), for a text with
\* fewer or more non-empty lines the largest number of the text that is at
\* least 10, or 0 when there is none.
C20_ParseClaps ==
    pc = "parsed" =>
        LET lines == NonEmptyLines(claps_text)
        IN  IF Len(lines) = 3
            THEN IsInt(lines[2]) => claps = lines[2][1].value
            ELSE claps = Fallback(claps_text)

\* The numeric part of a cleaned text (the text without its suffix) and the
\* factor of its suffix.
NumericPart(clean) ==
    IF Contains(clean, "K") THEN Without(clean, "K")
    ELSE IF Contains(clean, "M") THEN Without(clean, "M")
    ELSE clean

Factor(clean) ==
    IF Contains(clean, "K") THEN thousand
    ELSE IF Contains(clean, "M") THEN million
    ELSE 1

\* The numeric part times the factor, in exact arithmetic: its integer part
\* and whether it has a fraction.
Product(clean) ==
    DivPow10(TimesPlus(Normalize(DigitsOf(NumericPart(clean))), Factor(clean), 0),
             Places(NumericPart(clean)), FALSE)

\* C21: parse_number returns 0 for an empty text, for a text that is empty
\* once cleaned and for one whose numeric part is no number; otherwise it
\* returns the numeric part times 1,000 (K), 1,000,000 (M) or 1 (no suffix),
\* as an integer: the product itself when it is whole, the integer below or
\* above it when it is not.
C21_ParseNumber ==
    pc = "number_parsed" =>
        LET clean == CleanText(number_text)
        IN  IF clean = <<>> \/ ~IsFloatLiteral(NumericPart(clean)) THEN number = <<0>>
            ELSE \/ number = Decimal(Product(clean).q)
                 \/ /\ Product(clean).inexact
                    /\ number = Decimal(TimesPlus(Product(clean).q, 1, 1))

\* C22: normalize_url and the resolution of _extract_article_data both map
\* a root-relative path to the site origin followed by the path, a
\* protocol-relative value to "https:" followed by the value, and an
\* absolute URL to itself.
C22_UrlNormalization ==
    (pc = "url_normalized" /\ url_text # <<>>) =>
        LET expected ==
                IF url_text[1] = "/" THEN Origin \o url_text
                ELSE IF url_text[1] = "//" THEN <<"https:">> \o url_text
                ELSE url_text
        IN  url_text[1] \in {"/", "//", "http:", "https:"} =>
                /\ normalized_url = expected
                /\ extracted_url = expected

\* C23: when the loop has been left, its stop reason is the first condition
\* that is true, in the order no-DOM-growth counter >= 10, empty counter
\* >= 5, all-known counter >= the dynamic threshold, scroll attempts at the
\* ceiling (which has no break and no reason of its own); one of the four
\* is true whenever the loop has been left.
C23_StopPriority ==
    AfterLoop =>
        IF consecutive_no_scroll_progress >= no_scroll_progress_limit
        THEN stop_reason = "definitive_end"
        ELSE IF consecutive_no_new_content >= max_consecutive_empty
        THEN stop_reason = "no_articles"
        ELSE IF consecutive_all_known_content >= max_consecutive_all_known
        THEN stop_reason = "scroll_limit"
        ELSE stop_reason = "none" /\ scroll_attempts >= max_scroll_attempts

\* C23, its case: two conditions became true in the same iteration, on a
\* snapshot that rendered nodes: the node count had been the same for 10
\* iterations and the fifth iteration in a row captured and knew nothing.
C23_Witness ==
    /\ pc = "merge"
    /\ current_count > 0
    /\ consecutive_no_scroll_progress = no_scroll_progress_limit
    /\ consecutive_no_new_content = max_consecutive_empty
    /\ stop_reason = "definitive_end"

\* The step that ends the for loop of an iteration and updates the counters.
TallyStep == pc = "nodes" /\ pc' = "save_progress"

\* C24: at the end of an iteration that added no record and skipped at
\* least one known node the all-known counter grows by one and the empty
\* counter becomes 0; at the end of one that added no record and skipped no
\* node the empty counter grows by one and the all-known counter becomes 0;
\* at the end of one that added a record both become 0.
C24_CounterUpdate ==
    [][TallyStep =>
          LET added == Len(articles_found) - initial_count
              known == articles_already_known
          IN  /\ (added = 0 /\ known > 0) =>
                    /\ consecutive_all_known_content' = consecutive_all_known_content + 1
                    /\ consecutive_no_new_content' = 0
              /\ (added = 0 /\ known = 0) =>
                    /\ consecutive_no_new_content' = consecutive_no_new_content + 1
                    /\ consecutive_all_known_content' = 0
              /\ added > 0 =>
                    /\ consecutive_no_new_content' = 0
                    /\ consecutive_all_known_content' = 0]_vars

\* C24, its case: an iteration that found only known nodes (and scrolled
\* fast) is followed by one that captured nothing and knew nothing: the
\* all-known counter is back at 0, the empty counter at 1.
C24_Witness ==
    /\ pc = "save_progress"
    /\ last_scroll = "fast"
    /\ current_count > 0
    /\ articles_already_known = 0
    /\ new_articles_count = 0
    /\ consecutive_no_new_content = 1
    /\ consecutive_all_known_content = 0

\* C25: the baseline is 0 before the first iteration and the node count of
\* the iteration before in every later one; at the end of every iteration
\* the no-DOM-growth counter grows by one when the iteration rendered as
\* many nodes as the baseline, and becomes 0 otherwise, and the baseline
\* becomes the node count of the iteration. So the counter is the number of
\* iterations in a row, up to this one, that rendered an unchanged number
\* of nodes: it is 1 after the first iteration exactly on a feed that
\* renders no node at the start, and never more than the iterations made.
C25_NoGrowthCounter ==
    [][/\ (pc = "loop_top" /\ scroll_attempts = 0) => last_article_count = 0
       /\ TallyStep =>
             /\ current_count = last_article_count =>
                   consecutive_no_scroll_progress' = consecutive_no_scroll_progress + 1
             /\ current_count # last_article_count =>
                   consecutive_no_scroll_progress' = 0
             /\ last_article_count' = current_count
             /\ consecutive_no_scroll_progress' <= scroll_attempts + 1
             /\ scroll_attempts = 0 =>
                   (consecutive_no_scroll_progress' = 1 <=> current_count = 0)]_vars

\* C25, its case: a feed that renders no node from the start, after its
\* third iteration: the counter is 3.
C25_Witness ==
    /\ pc = "save_progress"
    /\ scroll_attempts = 2
    /\ current_count = 0
    /\ consecutive_no_scroll_progress = 3

\* The step that performs the scroll action of an iteration.
ScrollStep == pc = "scroll" /\ pc' = "loop_top"

\* C26: an iteration ends with exactly one scroll action when the loop goes
\* on to another iteration after it, and with none when the loop stops in
\* it (through a break or at the scroll-attempt ceiling); the scroll is the
\* fast one exactly when the iteration skipped a known node and added no
\* record, and the normal one otherwise.
C26_ScrollPolicy ==
    [][/\ ScrollStep =>
             /\ WhileCondition'
             /\ last_scroll' = (IF articles_already_known > 0 /\ new_articles_count = 0
                                THEN "fast" ELSE "normal")
       /\ (pc = "stop_check" /\ pc' = "merge") => UNCHANGED <<scroll_attempts, last_scroll>>
       /\ (pc = "stop_check" /\ pc' = "loop_top") => FALSE
       /\ (pc' = "loop_top" /\ pc # "loop_top") => pc \in {"navigate", "scroll"}
       /\ last_scroll' # last_scroll => ScrollStep \/ pc \in {"idle", "done"}]_vars

\* C27: when the loop is entered the all-known threshold becomes
\* max(200, existing_record_count / 15 + 100) (the division that of whole
\* numbers), existing_record_count being the number of records loaded from
\* the checkpoint; no step of the loop changes it, whatever is added to the
\* running list; it is at least 200; and no smaller number of loaded
\* records would have given a larger threshold.
C27_DynamicThreshold ==
    [][/\ (pc = "navigate" /\ pc' = "loop_top") =>
             LET quota == (initial_article_count \div articles_per_scroll) + all_known_margin
             IN  max_consecutive_all_known' =
                     (IF quota > min_all_known_limit THEN quota ELSE min_all_known_limit)
       /\ (pc \in LoopPlaces /\ pc' \in LoopPlaces) =>
             max_consecutive_all_known' = max_consecutive_all_known
       /\ pc' \in LoopPlaces =>
             /\ max_consecutive_all_known' >= min_all_known_limit
             /\ \A fewer \in 0..initial_article_count' :
                   estimated_scrolls_needed(fewer) <= max_consecutive_all_known']_vars

\* C27, its case: a run that loaded 1514 records (threshold 200) has
\* captured one more; the threshold of a list of 1515 records would be 201,
\* the threshold of the run is still 200.
C27_Witness ==
    /\ pc = "stop_check"
    /\ initial_article_count = LargestAtMinimum
    /\ Len(articles_found) = initial_article_count + 1
    /\ estimated_scrolls_needed(Len(articles_found)) > max_consecutive_all_known
    /\ max_consecutive_all_known = min_all_known_limit

\* C28: whenever the stop conditions of an iteration that added a record
\* are about to be evaluated, and from then until the next snapshot or
\* until the final checkpoint of scrape_list replaces it, the checkpoint on
\* disk holds the whole running list and the ledger as they are, the
\* records of this iteration included.
C28_CheckpointInIteration ==
    (pc \in {"stop_check", "scroll", "loop_top", "merge", "final_progress",
             "final_progress_write", "final_progress_csv", "final_checkpoint"}
     /\ new_articles_count > 0) =>
        /\ checkpoint_file = CheckpointData(articles_found, scraped_urls)
        /\ Len(checkpoint_file.articles) = initial_count + new_articles_count

\* C28, its case: the loop has been left through a break in an iteration
\* that added a record to a list of loaded records.
C28_Witness ==
    /\ pc = "merge"
    /\ stop_reason # "none"
    /\ new_articles_count > 0
    /\ initial_article_count > 0
    /\ checkpoint_file.articles = ArticleDicts(articles_found)

\* The step of lines 471-473, which writes the progress snapshot when it
\* is due.
SaveProgressStep == pc = "save_progress" /\ pc' \in {"save_progress_csv", "save_checkpoint"}

\* C29: an iteration of the loop writes a progress snapshot exactly when
\* it writes a checkpoint.
C29_ProgressCadence ==
    [][SaveProgressStep => (ProgressDue <=> CheckpointDue)]_vars

\* The cheap probe of the node ran to its end and found a URL the ledger
\* holds.
ProbedKnown(node, ledger) == node.fails # "probe" /\ ProbeKnown(node, ledger)

\* C30: the for loop counts a node whose probed URL is in the ledger as
\* known and leaves the running list alone; of the other nodes it counts as
\* failed those whose probe or extraction fails and no others, and a node
\* whose extraction succeeds is counted as new and its record is the new
\* last record of the running list.
C30_NodeClassification ==
    [][NodeStep =>
        LET node == last_node'.node
        IN  IF ProbedKnown(node, scraped_urls)
            THEN /\ articles_already_known' = articles_already_known + 1
                 /\ articles_found' = articles_found
                 /\ articles_extracted' = articles_extracted
                 /\ articles_failed' = articles_failed
            ELSE /\ articles_already_known' = articles_already_known
                 /\ (articles_failed' = articles_failed + 1) <=> (node.fails # "no")
                 /\ node.fails = "no" =>
                       /\ articles_extracted' = articles_extracted + 1
                       /\ Len(articles_found') = Len(articles_found) + 1
                       /\ articles_found'[Len(articles_found')].url = ExtractUrl(node)]_vars

\* C31: the empty counter and the all-known counter are never both
\* greater than zero.
C31_CountersExclusive ==
    ~(consecutive_no_new_content > 0 /\ consecutive_all_known_content > 0)

\* C31, its case: no record was added in this run and an iteration of
\* known nodes has just followed an empty one, so the all-known counter
\* has risen to 1 where the empty counter was positive.
C31_Witness ==
    /\ pc = "save_progress"
    /\ scroll_attempts >= 1
    /\ Len(articles_found) = initial_article_count
    /\ new_articles_count = 0
    /\ articles_already_known > 0
    /\ consecutive_all_known_content = 1
    /\ consecutive_no_new_content = 0

\* The for loop of the iteration is running or has run to its end and
\* the iteration is not over.
InIteration == pc \in {"nodes", "save_progress", "save_progress_csv", "save_checkpoint",
                       "checkpoint_write", "stop_check", "scroll"}

\* C32: in an iteration the new, known and failed tallies add up to the
\* number of nodes of the snapshot the for loop has handled (all of them
\* once the loop is through), and the new tally is the growth of the
\* running list in the iteration.
C32_TalliesPartition ==
    InIteration =>
        /\ articles_extracted + articles_already_known + articles_failed
              = current_count - nodes_left
        /\ articles_extracted = Len(articles_found) - initial_count
        /\ pc # "nodes" =>
              /\ nodes_left = 0
              /\ new_articles_count = articles_extracted

\* C32, its case: the for loop is through a snapshot of two nodes, one
\* counted new and one counted failed.
C32_Witness ==
    /\ pc = "save_progress"
    /\ current_count = 2
    /\ articles_extracted = 1
    /\ articles_failed = 1
    /\ Len(articles_found) = initial_count + 1

\* The run has added a record to the list it started with before the
\* current iteration began.
AddedBefore(count) == count > initial_article_count

\* C33: at the start of every iteration after the first record was added
\* in this run, checkpoint.json is a complete checkpoint whose record list
\* is the running list; and while such an iteration runs and the file is
\* not being written, its record list is the running list as it was when
\* the iteration began or as it is now, so that only records of the
\* iteration in progress are missing from it.
C33_CheckpointCurrent ==
    /\ (pc = "loop_top" /\ AddedBefore(Len(articles_found))) =>
          /\ checkpoint_file.kind = "json"
          /\ checkpoint_file.articles = ArticleDicts(articles_found)
    /\ (InIteration /\ pc # "checkpoint_write" /\ AddedBefore(initial_count)) =>
          /\ checkpoint_file.kind = "json"
          /\ \/ checkpoint_file.articles = ArticleDicts(SubSeq(articles_found, 1, initial_count))
             \/ checkpoint_file.articles = ArticleDicts(articles_found)

\* C33, its case: a run resumed from a checkpoint has added a record, and
\* an iteration that added none begins.
C33_Witness ==
    /\ pc = "loop_top"
    /\ initial_article_count > 0
    /\ Len(articles_found) > initial_article_count
    /\ new_articles_count = 0
    /\ scroll_attempts >= 2
    /\ checkpoint_file.articles = ArticleDicts(articles_found)

\* C34: for every non-empty data-href the URL the loop's probe computes
\* is the URL _extract_article_data stores for the node.
C34_ProbeMatchesExtractor ==
    (pc = "url_normalized" /\ url_text # <<>>) => probed_url = extracted_url

\* The loop of a call of scrape_list is about to take its first snapshot.
LoopStart == pc = "loop_top" /\ scroll_attempts = 0

\* C35: a call of scrape_list starts its loop with a ledger that holds no
\* URL whose record is not in the list the loop starts with.
C35_LedgerMatchesStart ==
    LoopStart => scraped_urls \subseteq UrlsOf(articles_found)

\* C36: the counters of the loop never exceed their thresholds (the
\* no-DOM-growth counter 10, the empty counter 5, the all-known counter the
\* dynamic threshold once the loop is entered, the scroll attempts 5000),
\* and the iterations begun, hence those completed, are at most the
\* scroll attempts plus one.
C36_CountersBounded ==
    /\ consecutive_no_scroll_progress <= no_scroll_progress_limit
    /\ consecutive_no_new_content <= max_consecutive_empty
    /\ (InIteration \/ AfterLoop \/ pc = "loop_top") =>
          consecutive_all_known_content <= max_consecutive_all_known
    /\ scroll_attempts <= max_scroll_attempts
    /\ iterations <= scroll_attempts + 1
    /\ iterations >= scroll_attempts

\* C36, its case: the loop has been left with the no-DOM-growth counter at
\* its threshold, in the iteration after the tenth scroll attempt.
C36_Witness ==
    /\ pc = "merge"
    /\ consecutive_no_scroll_progress = no_scroll_progress_limit
    /\ scroll_attempts = 10
    /\ iterations = 11

\* The extraction of the node fails: the probe raises, or the probe does
\* not find the node known and _extract_article_data returns None.
ExtractionFails(node, ledger) ==
    \/ node.fails = "probe"
    \/ node.fails = "extract" /\ ~ProbeKnown(node, ledger)

\* C37: a node whose extraction fails changes neither the ledger nor the
\* running list, and is counted as failed.
C37_FailureChangesNothing ==
    [][(NodeStep /\ ExtractionFails(last_node'.node, scraped_urls)) =>
          /\ scraped_urls' = scraped_urls
          /\ articles_found' = articles_found
          /\ articles_failed' = articles_failed + 1]_vars

\* C37, its case: the extraction of a node that carries a URL has just
\* failed, and the URL is neither in the ledger nor in the list.
C37_Witness ==
    /\ pc = "nodes"
    /\ last_node.verdict = "failed"
    /\ last_node.node.link = "attr"
    /\ last_node.node.href # <<>>
    /\ ExtractUrl(last_node.node) \notin scraped_urls
    /\ ExtractUrl(last_node.node) \notin UrlsOf(articles_found)
    /\ articles_found # <<>>

\* The call has returned through the return of line 695.
Returned == pc \in (CleanupPlaces \cup {"done"}) /\ outcome = "returned" /\ raised_at = "none"

\* C38: the list the final merge leaves is the list the loop returned,
\* record by record in the same order, and it is the list the final
\* progress snapshot and the final checkpoint hold and the call returns.
C38_MergeKeepsList ==
    /\ pc \in {"final_progress", "final_progress_write", "final_progress_csv",
               "final_checkpoint", "final_checkpoint_write", "summary"} =>
          articles = articles_found
    /\ Returned =>
          /\ articles = articles_found
          /\ checkpoint_file.articles = ArticleDicts(articles_found)
          /\ articles_found # <<>> => progress_file = articles_found

\* C38, its case: a call that loaded a list with a repeated URL and added
\* a record to it has returned.
C38_Witness ==
    /\ Returned
    /\ initial_article_count > 1
    /\ articles[1].url = articles[initial_article_count].url
    /\ Len(articles) > initial_article_count
    /\ checkpoint_file.articles = ArticleDicts(articles)

====
